---- MODULE Spec2Model ----
(***************************************************************************)
(* Model of the CloudComPy batch-processing orchestrator:                  *)
(*   - package processor (Processor: Start / Stop / run / readOutput /     *)
(*     sendLog / sendResult), whose goroutines are modelled one atomic     *)
(*     channel or mutex operation per step;                                *)
(*   - package tui (Model.Update and its screen handlers), the             *)
(*     single-threaded Bubble Tea event loop that drives a Processor.      *)
(*                                                                         *)
(* Two specifications share the variables and the Processor actions:       *)
(*   Spec     the program: the TUI constructs one Processor per start and  *)
(*            calls Start once and Stop on cancel;                         *)
(*   ApiSpec  one Processor driven by an arbitrary caller of its exported  *)
(*            methods (Start, Stop, LogChan, ResultChan).                  *)
(* LiveSpec is Spec with the fairness the Go scheduler and the operating   *)
(* system give to goroutines and to the child process.                     *)
(***************************************************************************)
EXTENDS Integers, Sequences, FiniteSets, Bags, TLC

(***************************************************************************)
(* Bounds of the model.                                                    *)
(***************************************************************************)
\* Processor objects the TUI constructs (one per startProcessing call).
MaxProcs == 1
\* Runs (go p.run()) launched over a behaviour.
MaxRuns == 1
\* Lines one worker process writes to its two pipes together.
MaxLines == 2
\* Capacity of logChan in the model (make(chan LogEntry, 500) in the code).
LogChanCap == 2
\* m.maxLogs in the model (500 in the code).
MaxLogs == 2
\* Pending PollLogsMsg timer events kept in flight.
MaxPending == 2
\* Entries of the input directory.
MaxFiles == 1
\* Start calls of the API caller that fail in FindScripts.
MaxStartFails == 1
\* Tokens of one raw output line.
MaxLineLen == 4
\* Starts after the first MaxRuns that the restart specifications allow.
MaxRestarts == 1
\* Path components below the root that the browser descends to
MaxDepth == 2
\* Directory listings in flight at one time
MaxLoads == 2

\* Capacity of resultChan: make(chan ProcessingResult, 1).
ResultChanCap == 1
\* FocusedField enumeration: FocusInputDir = 0 .. FocusStartButton = 7.
FocusStartButton == 7
FocusFieldCount == 8

Procs == 1..(MaxProcs + MaxRestarts)
Runs == 1..(MaxRuns + MaxRestarts)
\* The runs whose goroutines Spec, ApiSpec and RestartSpec follow.
FollowedRuns == 1..MaxRuns
Streams == {"out", "err"}
Roles == {"run", "out", "err"}
\* The caller's thread inside Processor.Start (ApiSpec only).
ApiThread == <<0, "api">>
\* The single Processor of ApiSpec.
ApiProc == 1
Threads == (Runs \X Roles) \cup {ApiThread}

(***************************************************************************)
(* Worker output lines, by what readOutput makes of them.                  *)
(*   "succ"  [SUCCESS] Successfully processed: f.las                       *)
(*   "fail"  [ERROR] Failed to process: g.las                              *)
(*   "info"  [INFO] anything else                                          *)
(*   "blank" an empty line or a === / --- separator                        *)
(***************************************************************************)
Lines == {"succ", "fail", "info", "blank"}

LineSkipped(l) == l = "blank"

LineLevel(l) ==
    CASE l = "succ" -> "SUCCESS"
      [] l = "fail" -> "ERROR"
      [] OTHER -> "INFO"

\* level == LogSuccess && strings.Contains(message, "Successfully processed:")
IsSuccessEntry(level, msg) == level = "SUCCESS" /\ msg = "succ"

\* Variant: the failure tally looks for the wrong level.
IsFailureEntryWrongLevel(level, msg) == level = "WARNING" /\ msg = "fail"

\* level == LogError && (Contains(message, "Failed to") || Contains(message, "failed"))
IsFailureEntry(level, msg) == level = "ERROR" /\ msg = "fail"

NoEntry == [level |-> "NONE", msg |-> "none", run |-> 0, src |-> "none", n |-> 0]

LogEntry(level, msg, r, src, n) ==
    [level |-> level, msg |-> msg, run |-> r, src |-> src, n |-> n]

NoResult ==
    [TotalFiles |-> 0, SuccessCount |-> 0, FailedCount |-> 0,
     Completed |-> FALSE, run |-> 0]

\* Variant: the failed start is reported without a failure.
FailedStartResultNoFailure(r) ==
    [TotalFiles |-> 0, SuccessCount |-> 0, FailedCount |-> 0,
     Completed |-> TRUE, run |-> r]

\* ProcessingResult{Completed: true, FailedCount: 1}
FailedStartResult(r) ==
    [TotalFiles |-> 0, SuccessCount |-> 0, FailedCount |-> 1,
     Completed |-> TRUE, run |-> r]

\* Variant: every abnormal exit counts as one failure.
SynthFailureAnyExit(f, exitOk) == ~exitOk

\* exitErr != nil && failedCount == 0
SynthFailure(f, exitOk) == ~exitOk /\ f = 0

\* Variant: no success is inferred from a clean exit without tallies.
ExitResultNoInferred(s, f, exitOk, r) ==
    LET base == [TotalFiles |-> s + f, SuccessCount |-> s, FailedCount |-> f,
                 Completed |-> TRUE, run |-> r]
    IN  IF ~exitOk /\ f = 0
        THEN [base EXCEPT !.FailedCount = 1,
                          !.TotalFiles = IF base.TotalFiles = 0
                                         THEN 1 ELSE base.TotalFiles]
        ELSE base

\* The result run() derives from the tallies and the exit status.
ExitResult(s, f, exitOk, r) ==
    LET base == [TotalFiles |-> s + f, SuccessCount |-> s, FailedCount |-> f,
                 Completed |-> TRUE, run |-> r]
        inferred == IF exitOk /\ s = 0 /\ f = 0
                    THEN [base EXCEPT !.SuccessCount = 1, !.TotalFiles = 1]
                    ELSE base
    IN  IF SynthFailure(f, exitOk)
        THEN [inferred EXCEPT !.FailedCount = 1,
                              !.TotalFiles = IF inferred.TotalFiles = 0
                                             THEN 1 ELSE inferred.TotalFiles]
        ELSE inferred

(***************************************************************************)
(* The input directory as the file system shows it: missing, a regular     *)
(* file, or a directory with entries; an entry is a name's extension as    *)
(* written and whether the entry is itself a directory.                    *)
(***************************************************************************)
Exts == {"LAS", "txt"}

DirEntries == [ext : Exts, isDir : BOOLEAN]

NoDir == [kind |-> "unset", entries |-> {}]

InputDirs ==
    {[kind |-> "missing", entries |-> {}], [kind |-> "file", entries |-> {}]}
        \cup {[kind |-> "dir", entries |-> es] :
                es \in {x \in SUBSET DirEntries : Cardinality(x) <= MaxFiles}}

\* strings.ToLower on an extension.
ToLower(ext) == IF ext = "LAS" THEN "las" ELSE ext

\* CountLASFiles: entries that are not directories and whose lower-cased
\* name ends in ".las"; 0 (with an error) when the directory cannot be read.
CountLASFiles(d) ==
    IF d.kind # "dir" THEN 0
    ELSE Cardinality({e \in d.entries : ~e.isDir /\ ToLower(e.ext) = "las"})

\* Variant: an empty count is not an error.
ValidateInputDirAllowsEmpty(d) ==
    CASE d.kind = "missing" -> "notexist"
      [] d.kind = "file" -> "notdir"
      [] OTHER -> "nil"

\* ValidateInputDir: the error it returns, "nil" for none.
ValidateInputDir(d) ==
    CASE d.kind = "missing" -> "notexist"
      [] d.kind = "file" -> "notdir"
      [] CountLASFiles(d) = 0 -> "nolas"
      [] OTHER -> "nil"

\* A non-blocking send `select { case ch <- v: default: }` succeeds iff the
\* buffer has room.
ChanHasRoom(ch, cap) == Len(ch) < cap

\* The text inputs of the form: every focus position but the start button.
FormFields == 0..(FocusStartButton - 1)
FocusInputDir == 0

\* The directories that exist, and the working directory.
DirPaths == {"/", "/w", "/w/scans", "/w/t", "/w/u", "/w/v"}
Cwd == "/w"
\* The names directories have.
DirNames == {"w", "scans", "t", "u", "v"}
\* filepath.Join(dir, name)
Join(d, n) == IF d = "/" THEN d \o n ELSE d \o "/" \o n

RECURSIVE PathsAt(_)
\* The paths of k components.
PathsAt(k) ==
    IF k = 0 THEN {"/"}
    ELSE {Join(d, n) : d \in PathsAt(k - 1), n \in DirNames}

\* Every path m.currentDir can hold, existing or not.
Paths == UNION {PathsAt(k) : k \in 0..MaxDepth}
\* filepath.Dir
ParentDir(d) ==
    IF d = "/" THEN "/"
    ELSE CHOOSE par \in Paths : \E n \in DirNames : Join(par, n) = d
\* os.ReadDir(path) fails.
ReadDirFails(d) == d \notin DirPaths
\* loadDirectory: the sub-directories os.ReadDir lists, sorted by name;
\* none when the read fails.
ListDir(d) ==
    CASE d = "/" -> <<"w">>
      [] d = "/w" -> <<"scans", "t", "u", "v">>
      [] OTHER -> <<>>
\* m.entries with the directory it was listed from; nil before the first
\* listing arrives.
NoEntries == [dir |-> "none", names |-> <<>>]
\* Window heights a tea.WindowSizeMsg reports; New() sets 24.
Heights == {12, 24}
\* maxVisible of updateFileBrowser.
MaxVisible(h) == IF h - 10 < 3 THEN 3 ELSE h - 10
\* What a text field holds after an edit.
TypedTexts == {"", "8"}

(***************************************************************************)
(* Processor.readOutput on one raw line.  A line is a sequence of tokens:  *)
(* Space is a run of white space, "=" and "-" are single characters, a tag *)
(* token is "[" word "]", the rest are pieces of message text.             *)
(***************************************************************************)
Space == " "
SepChars == {"=", "-"}
TagTokens == {"[INFO]", "[Success]", "[warning]", "[ERROR]", "[error]", "[DEBUG]"}
TextTokens == {"Successfully processed:", "Failed to", "failed", "ok"}
Tokens == {Space} \cup SepChars \cup TagTokens \cup TextTokens
KnownLevels == {"INFO", "SUCCESS", "WARNING", "ERROR"}

RECURSIVE TrimLeft(_)
TrimLeft(s) == IF s # <<>> /\ Head(s) = Space THEN TrimLeft(Tail(s)) ELSE s

RECURSIVE TrimRight(_)
TrimRight(s) ==
    IF s # <<>> /\ s[Len(s)] = Space THEN TrimRight(SubSeq(s, 1, Len(s) - 1)) ELSE s

\* strings.TrimSpace
TrimSpace(s) == TrimRight(TrimLeft(s))

\* strings.HasPrefix(line, "===") and strings.HasPrefix(line, "---")
HasPrefix3(s, c) == Len(s) >= 3 /\ s[1] = c /\ s[2] = c /\ s[3] = c

\* strings.Contains(message, needle)
Contains(s, needle) == \E i \in 1..Len(s) : s[i] = needle

\* logPattern = ^\[(\w+)\]\s*(.*)$ : the line starts with a tag token.
LogPatternMatches(s) == s # <<>> /\ Head(s) \in TagTokens

\* strings.ToUpper(matches[1])
TagUpper(tok) ==
    CASE tok = "[INFO]" -> "INFO"
      [] tok = "[Success]" -> "SUCCESS"
      [] tok = "[warning]" -> "WARNING"
      [] tok \in {"[ERROR]", "[error]"} -> "ERROR"
      [] OTHER -> "DEBUG"

\* matches[2]: what follows the tag and the white space after it.
TagMessage(s) == TrimLeft(Tail(s))

NoLine == [sent |-> <<>>, succ |-> 0, fail |-> 0]

\* Variant: the success marker counts at every severity.
ReadOutputLineAnyLevel(raw) ==
    LET line == TrimSpace(raw) IN
    IF line = <<>> THEN NoLine
    ELSE IF HasPrefix3(line, "=") \/ HasPrefix3(line, "-") THEN NoLine
    ELSE IF LogPatternMatches(line)
    THEN LET level == TagUpper(Head(line))
             message == TagMessage(line)
         IN [sent |-> <<[level |-> IF level \in KnownLevels THEN level ELSE "INFO",
                         msg |-> message]>>,
             succ |-> IF Contains(message, "Successfully processed:")
                      THEN 1 ELSE 0,
             fail |-> IF level = "ERROR" /\ (Contains(message, "Failed to")
                                             \/ Contains(message, "failed"))
                      THEN 1 ELSE 0]
    ELSE [sent |-> <<[level |-> "INFO", msg |-> line]>>, succ |-> 0, fail |-> 0]

\* One round of the scanner loop of readOutput: the entries it passes to
\* sendLog and what it adds to successCount and failedCount.
ReadOutputLine(raw) ==
    LET line == TrimSpace(raw) IN
    IF line = <<>> THEN NoLine
    ELSE IF HasPrefix3(line, "=") \/ HasPrefix3(line, "-") THEN NoLine
    ELSE IF LogPatternMatches(line)
    THEN LET level == TagUpper(Head(line))
             message == TagMessage(line)
         IN [sent |-> <<[level |-> IF level \in KnownLevels THEN level ELSE "INFO",
                         msg |-> message]>>,
             succ |-> IF level = "SUCCESS"
                         /\ Contains(message, "Successfully processed:")
                      THEN 1 ELSE 0,
             fail |-> IF level = "ERROR" /\ (Contains(message, "Failed to")
                                             \/ Contains(message, "failed"))
                      THEN 1 ELSE 0]
    ELSE [sent |-> <<[level |-> "INFO", msg |-> line]>>, succ |-> 0, fail |-> 0]

\* The raw lines drawn for readOutput.
RECURSIVE SeqsUpTo(_, _)
SeqsUpTo(S, n) ==
    IF n = 0 THEN {<<>>}
    ELSE LET shorter == SeqsUpTo(S, n - 1)
         IN shorter \cup {Append(q, x) : q \in shorter, x \in S}
RawLines == SeqsUpTo(Tokens, MaxLineLen)


(***************************************************************************)
(* startProcessing: the form fields parsed into processor.Params.  A float *)
(* is a record: not-a-number, or a value in hundredths.                    *)
(***************************************************************************)
Float(h) == [nan |-> FALSE, h |-> h]
NaN == [nan |-> TRUE, h |-> 0]
\* x <= 0 and x > 0 on float64: both are false of NaN.
FloatLE0(x) == ~x.nan /\ x.h <= 0
FloatGT0(x) == ~x.nan /\ x.h > 0
\* x != y on float64: true when either is NaN.
FloatNE(x, y) == x.nan \/ y.nan \/ x.h # y.h

\* processor.DefaultParams()
DefaultParams ==
    [InputDir |-> ".", OutputSubdir |-> "Processed", KNN |-> 6,
     OctreeDepth |-> 11, SamplesPerNode |-> Float(150),
     PointWeight |-> Float(200), BoundaryType |-> 2]

\* fmt.Sscanf(text, "%d", &cur): the leading integer of text, or cur left
\* as it is when text does not start with one.
ScanInt(text, cur) ==
    CASE text = "0" -> 0
      [] text = "1" -> 1
      [] text = "2" -> 2
      [] text = "3" -> 3
      [] text = "8" -> 8
      [] text = "-3" -> 0 - 3
      [] text = "2.5" -> 2
      [] OTHER -> cur

\* fmt.Sscanf(text, "%f", &cur): the leading float of text ("nan" is one),
\* or cur left as it is.
ScanFloat(text, cur) ==
    CASE text = "0" -> Float(0)
      [] text = "8" -> Float(800)
      [] text = "-3" -> Float(0 - 300)
      [] text = "2.5" -> Float(250)
      [] text = "nan" -> NaN
      [] OTHER -> cur

\* Field texts drawn for the parse.
DirTexts == {"", "/w/scans"}
NameTexts == {"", "out"}
IntTexts == {"", "abc", "0", "-3", "8", "2.5"}
FloatTexts == {"", "abc", "0", "-3", "2.5", "nan"}
BoundaryTexts == {"", "x", "0", "1", "2", "3"}
FormTexts ==
    {<<d, o, k, t, n, w, b>> : d \in DirTexts, o \in NameTexts, k \in IntTexts,
                               t \in {"", "0", "8"}, n \in FloatTexts,
                               w \in {"", "-3", "2.5", "nan"}, b \in BoundaryTexts}

\* startProcessing, "Parse parameters from inputs": inp[i] is the text of
\* field i - 1, sel is m.selectedDir.
ParseForm(inp, sel) ==
    LET knn == ScanInt(inp[3], 6)
        depth == ScanInt(inp[4], 11)
        samples == ScanFloat(inp[5], Float(150))
        weight == ScanFloat(inp[6], Float(200))
        boundary == ScanInt(inp[7], 2)
    IN [InputDir |-> IF inp[1] = "" THEN sel ELSE inp[1],
        OutputSubdir |-> IF inp[2] = "" THEN "Processed" ELSE inp[2],
        KNN |-> IF knn <= 0 THEN 6 ELSE knn,
        OctreeDepth |-> IF depth <= 0 THEN 11 ELSE depth,
        SamplesPerNode |-> IF FloatLE0(samples) THEN Float(150) ELSE samples,
        PointWeight |-> IF FloatLE0(weight) THEN Float(200) ELSE weight,
        BoundaryType |-> IF boundary < 0 \/ boundary > 2 THEN 2 ELSE boundary]

(***************************************************************************)
(* Processor.buildArgs.                                                    *)
(***************************************************************************)
Digits == <<"0", "1", "2", "3", "4", "5", "6", "7", "8", "9">>

\* fmt.Sprintf("%d", n)
RECURSIVE Itoa(_)
Itoa(n) ==
    IF n < 0 THEN "-" \o Itoa(0 - n)
    ELSE IF n < 10 THEN Digits[n + 1]
    ELSE Itoa(n \div 10) \o Digits[(n % 10) + 1]

\* fmt.Sprintf("%.1f", x): one decimal, rounded.
Fmt1f(x) ==
    LET abs == IF x.h < 0 THEN 0 - x.h ELSE x.h
        tenths == (abs + 5) \div 10
    IN IF x.nan THEN "NaN"
       ELSE (IF x.h < 0 THEN "-" ELSE "")
            \o Itoa(tenths \div 10) \o "." \o Itoa(tenths % 10)

\* The Params a Processor can be constructed with.
ParamSets ==
    [InputDir : {"."}, OutputSubdir : {"", "Processed", "out"},
     KNN : {0 - 3, 0, 6, 8}, OctreeDepth : {0, 11, 8},
     SamplesPerNode : {Float(0), Float(150), Float(154), Float(250), NaN},
     PointWeight : {Float(0 - 300), Float(200), Float(250)},
     BoundaryType : {0 - 1, 0, 2, 3}]
AbsDirs == {"/w", "/w/scans"}

\* args = append(args, flag, value) when cond
FlagPair(cond, flag, value) == IF cond THEN <<flag, value>> ELSE <<>>

\* Variant: the neighbor count gets its flag whenever it is not 6.
BuildArgsKnnUnchecked(params, absInputDir) ==
    <<absInputDir>>
    \o FlagPair(params.OutputSubdir # "" /\ params.OutputSubdir # "Processed",
                "--output-dir", params.OutputSubdir)
    \o FlagPair(params.KNN # 6, "--knn", Itoa(params.KNN))
    \o FlagPair(params.OctreeDepth # 11 /\ params.OctreeDepth > 0,
                "--octree-depth", Itoa(params.OctreeDepth))
    \o FlagPair(FloatNE(params.SamplesPerNode, Float(150))
                /\ FloatGT0(params.SamplesPerNode),
                "--samples-per-node", Fmt1f(params.SamplesPerNode))
    \o FlagPair(FloatNE(params.PointWeight, Float(200))
                /\ FloatGT0(params.PointWeight),
                "--point-weight", Fmt1f(params.PointWeight))
    \o FlagPair(params.BoundaryType # 2 /\ params.BoundaryType >= 0
                /\ params.BoundaryType <= 2,
                "--boundary-type", Itoa(params.BoundaryType))

\* Processor.buildArgs
BuildArgs(params, absInputDir) ==
    <<absInputDir>>
    \o FlagPair(params.OutputSubdir # "" /\ params.OutputSubdir # "Processed",
                "--output-dir", params.OutputSubdir)
    \o FlagPair(params.KNN # 6 /\ params.KNN > 0, "--knn", Itoa(params.KNN))
    \o FlagPair(params.OctreeDepth # 11 /\ params.OctreeDepth > 0,
                "--octree-depth", Itoa(params.OctreeDepth))
    \o FlagPair(FloatNE(params.SamplesPerNode, Float(150))
                /\ FloatGT0(params.SamplesPerNode),
                "--samples-per-node", Fmt1f(params.SamplesPerNode))
    \o FlagPair(FloatNE(params.PointWeight, Float(200))
                /\ FloatGT0(params.PointWeight),
                "--point-weight", Fmt1f(params.PointWeight))
    \o FlagPair(params.BoundaryType # 2 /\ params.BoundaryType >= 0
                /\ params.BoundaryType <= 2,
                "--boundary-type", Itoa(params.BoundaryType))

(***************************************************************************)
(* Processor.FindScripts.  The five candidate directories are taken to be  *)
(* distinct; a path is named by the candidate it lies in.                  *)
(***************************************************************************)
SearchPaths == <<"cwd", "execDir", "execDir/..", "execDir/../..", "cwd/..">>
Candidates == {SearchPaths[i] : i \in 1..Len(SearchPaths)}

\* The first directory of searchPaths in which os.Stat finds the file, ""
\* when the loop ends without a match.
FirstMatch(has) ==
    LET hits == {i \in 1..Len(SearchPaths) : SearchPaths[i] \in has}
    IN IF hits = {} THEN ""
       ELSE SearchPaths[CHOOSE i \in hits : \A j \in hits : i <= j]

\* FindScripts on a Processor whose scriptPath and batPath are prev: hasPy
\* and hasBat are the candidates holding process_las_files.py and
\* run_cloudcompy.bat, windows is runtime.GOOS == "windows".
FindScripts(prev, hasPy, hasBat, windows) ==
    LET script == IF FirstMatch(hasPy) # "" THEN FirstMatch(hasPy)
                  ELSE prev.scriptPath
        bat == IF windows /\ FirstMatch(hasBat) # "" THEN FirstMatch(hasBat)
               ELSE prev.batPath
    IN [scriptPath |-> script, batPath |-> bat,
        err |-> IF script = "" THEN "notfound" ELSE "nil"]

\* The calls drawn: a fresh Processor, or one on which an earlier call found
\* the script in the working directory.
FindInputs ==
    [fn : {"FindScripts"},
     prev : {[scriptPath |-> "", batPath |-> ""],
             [scriptPath |-> "cwd", batPath |-> ""]},
     hasPy : SUBSET Candidates,
     hasBat : SUBSET {"cwd", "execDir"},
     windows : BOOLEAN]

VARIABLES
    \* ---- Processor objects (indexed by Procs) ----
    created,        \* number of Processor objects constructed by New
    running,        \* p.running
    successCount,   \* p.successCount
    failedCount,    \* p.failedCount
    cmd,            \* p.cmd: 0 = nil, else the run whose exec.Cmd it is
    scriptPath,     \* p.scriptPath != ""
    logChan,        \* p.logChan
    resultChan,     \* p.resultChan
    \* ---- runs of Processor.run (indexed by Runs) ----
    started,        \* number of runs launched
    procOf,         \* the Processor a run belongs to
    runPc,          \* position of the run goroutine
    runResult,      \* local variable result
    pumpPc,         \* position of the two readOutput goroutines
    pumpCur,        \* the line a readOutput goroutine is working on
    slPc,           \* position inside sendLog, per thread
    slEnt,          \* the entry sendLog is sending, per thread
    seqNo,          \* entries a thread has handed to sendLog
    \* ---- child worker processes (indexed by Runs) ----
    child,          \* "none", "running", "exited"
    exitCode,       \* 0 clean, 1 failure, 2 killed
    pipe,           \* bytes written and not yet read, per stream
    written,        \* lines written so far
    procSync,       \* cmd.Process write is ordered before later p.mu holders
    \* ---- caller of the exported API ----
    apiPc,          \* position of the caller inside Start
    startRet,       \* what the Start call that launched a run returned
    lastStart,      \* outcome of the latest Start call
    \* ---- tui.Model ----
    screen, processing, uiProc, logs, filesDone, filesTotal, uiResult,
    focusedField, uiErr, quit,
    inputDir,       \* what m.params.InputDir names, as startProcessing found it
    listeners,      \* Processors a listenForResult command is blocked on
    doneMsgs,       \* ProcessingDoneMsg messages not yet handled
    pollPending,    \* PollLogsMsg timer events not yet handled
    uiPc,           \* "idle", or the drain loop Update is inside
    inputs,         \* m.inputs: the text of each form field
    selectedDir,    \* m.selectedDir
    currentDir,     \* m.currentDir: the directory the browser shows
    entries,        \* m.entries, and the directory they were listed from
    cursor,         \* m.cursor
    browseScroll,   \* m.browseScroll
    height,         \* m.height
    loads,          \* loadDirectory commands in flight: a bag of paths
    \* ---- one function applied to one input (PureSpec) ----
    fnIn,           \* the function and the input drawn for it
    fnOut,          \* what the function returned, NoOutput before the call
    \* ---- history ----
    emitS, emitF,   \* success / failure lines a worker wrote
    pubCount,       \* results a run put into the result slot
    sendResCalls,   \* sendResult calls a run made
    spawnFailed,    \* cmd.Start() failed for the run
    stopped,        \* Stop was called on the running Processor during the run
    cancelled,      \* the cancel key was handled for the Processor
    pubAfterCancel, \* the run published after its Processor was cancelled
    lostEntry       \* entries sendLog returned without enqueueing

procVars == <<created, running, successCount, failedCount, cmd, scriptPath,
              logChan, resultChan>>
runVars == <<started, procOf, runPc, runResult, pumpPc, pumpCur, slPc, slEnt,
             seqNo>>
childVars == <<child, exitCode, pipe, written, procSync>>
apiVars == <<apiPc, startRet, lastStart>>
uiVars == <<screen, processing, uiProc, logs, filesDone, filesTotal, uiResult,
            focusedField, uiErr, quit, inputDir, listeners, doneMsgs,
            pollPending, uiPc, inputs, selectedDir, currentDir, entries,
            cursor, browseScroll, height, loads>>
formVars == <<inputs, selectedDir, currentDir>>
browseVars == <<entries, cursor, browseScroll, height, loads>>
fnVars == <<fnIn, fnOut>>
histVars == <<emitS, emitF, pubCount, sendResCalls, spawnFailed, stopped,
              cancelled, pubAfterCancel, lostEntry>>
vars == <<procVars, runVars, childVars, apiVars, uiVars, fnVars, histVars>>

\* The latest Start call: its Processor, what it returned, the run it launched;
\* bit flips at every call.
NoStart == [proc |-> 0, ret |-> "none", run |-> 0, bit |-> 0]

NoInput == [fn |-> "none"]
NoOutput == [none |-> TRUE]

\* No function of PureSpec is being applied.
NoCall == fnIn = NoInput /\ fnOut = NoOutput

\* Everything but the Processor count: nothing constructed, started or shown.
InitRest ==
    /\ running = [p \in Procs |-> FALSE]
    /\ successCount = [p \in Procs |-> 0]
    /\ failedCount = [p \in Procs |-> 0]
    /\ cmd = [p \in Procs |-> 0]
    /\ scriptPath = [p \in Procs |-> FALSE]
    /\ logChan = [p \in Procs |-> <<>>]
    /\ resultChan = [p \in Procs |-> <<>>]
    /\ started = 0
    /\ procOf = [r \in Runs |-> 0]
    /\ runPc = [r \in Runs |-> "none"]
    /\ runResult = [r \in Runs |-> NoResult]
    /\ pumpPc = [r \in Runs |-> [k \in Streams |-> "none"]]
    /\ pumpCur = [r \in Runs |-> [k \in Streams |-> "none"]]
    /\ slPc = [t \in Threads |-> "none"]
    /\ slEnt = [t \in Threads |-> NoEntry]
    /\ seqNo = [t \in Threads |-> 0]
    /\ child = [r \in Runs |-> "none"]
    /\ exitCode = [r \in Runs |-> 0]
    /\ pipe = [r \in Runs |-> [k \in Streams |-> <<>>]]
    /\ written = [r \in Runs |-> 0]
    /\ procSync = [r \in Runs |-> FALSE]
    /\ apiPc = "idle"
    /\ startRet = [r \in Runs |-> "none"]
    /\ lastStart = NoStart
    /\ screen = "Welcome"
    /\ processing = FALSE
    /\ uiProc = 0
    /\ logs = <<>>
    /\ filesDone = 0
    /\ filesTotal = 0
    /\ uiResult = NoResult
    /\ focusedField = 0
    /\ uiErr = "none"
    /\ quit = FALSE
    /\ inputDir = NoDir
    /\ listeners = {}
    /\ doneMsgs = {}
    /\ pollPending = 0
    /\ uiPc = "idle"
    /\ inputs = [f \in FormFields |-> ""]
    /\ selectedDir = Cwd
    /\ currentDir = Cwd
    /\ entries = NoEntries
    /\ cursor = 0
    /\ browseScroll = 0
    /\ height = 24
    /\ loads = SetToBag({Cwd})
    /\ emitS = [r \in Runs |-> 0]
    /\ emitF = [r \in Runs |-> 0]
    /\ pubCount = [r \in Runs |-> 0]
    /\ sendResCalls = [r \in Runs |-> 0]
    /\ spawnFailed = [r \in Runs |-> FALSE]
    /\ stopped = [r \in Runs |-> FALSE]
    /\ cancelled = [p \in Procs |-> FALSE]
    /\ pubAfterCancel = [r \in Runs |-> FALSE]
    /\ lostEntry = {}

\* The program at startup: tui.New(), no Processor yet.
Init ==
    /\ created = 0
    /\ InitRest
    /\ NoCall

\* The program has not exited (tea.Quit ends the process and its goroutines).
Alive == ~quit

(***************************************************************************)
(* Processor.sendLog: three non-blocking channel operations.               *)
(***************************************************************************)
ThreadProc(t) == IF t = ApiThread THEN ApiProc ELSE procOf[t[1]]

\* A thread calls p.sendLog(level, msg); the call's steps follow.
CallSendLog(t, level, msg) ==
    /\ slPc' = [slPc EXCEPT ![t] = "send1"]
    /\ slEnt' = [slEnt EXCEPT ![t] = LogEntry(level, msg, t[1], t[2], seqNo[t] + 1)]
    /\ seqNo' = [seqNo EXCEPT ![t] = @ + 1]

NoSendLog == UNCHANGED <<slPc, slEnt, seqNo>>

\* Variant: a plain blocking send `p.logChan <- entry`.
SendLogTryBlocking(t) ==
    LET p == ThreadProc(t) IN
    /\ Alive
    /\ slPc[t] = "send1"
    /\ ChanHasRoom(logChan[p], LogChanCap)
    /\ logChan' = [logChan EXCEPT ![p] = Append(@, slEnt[t])]
    /\ slPc' = [slPc EXCEPT ![t] = "none"]
    /\ UNCHANGED <<created, running, successCount, failedCount, cmd, scriptPath,
                   resultChan>>
    /\ UNCHANGED <<started, procOf, runPc, runResult, pumpPc, pumpCur, slEnt, seqNo>>
    /\ UNCHANGED <<childVars, apiVars, fnVars, uiVars, histVars>>

\* select { case p.logChan <- entry: default: ... }
SendLogTry(t) ==
    LET p == ThreadProc(t) IN
    /\ Alive
    /\ slPc[t] = "send1"
    /\ IF ChanHasRoom(logChan[p], LogChanCap)
       THEN /\ logChan' = [logChan EXCEPT ![p] = Append(@, slEnt[t])]
            /\ slPc' = [slPc EXCEPT ![t] = "none"]
       ELSE /\ logChan' = logChan
            /\ slPc' = [slPc EXCEPT ![t] = "drop"]
    /\ UNCHANGED <<created, running, successCount, failedCount, cmd, scriptPath,
                   resultChan>>
    /\ UNCHANGED <<started, procOf, runPc, runResult, pumpPc, pumpCur, slEnt, seqNo>>
    /\ UNCHANGED <<childVars, apiVars, fnVars, uiVars, histVars>>

\* select { case <-p.logChan: default: }
SendLogDrop(t) ==
    LET p == ThreadProc(t) IN
    /\ Alive
    /\ slPc[t] = "drop"
    /\ logChan' = [logChan EXCEPT ![p] = IF Len(@) > 0 THEN Tail(@) ELSE @]
    /\ slPc' = [slPc EXCEPT ![t] = "send2"]
    /\ UNCHANGED <<created, running, successCount, failedCount, cmd, scriptPath,
                   resultChan>>
    /\ UNCHANGED <<started, procOf, runPc, runResult, pumpPc, pumpCur, slEnt, seqNo>>
    /\ UNCHANGED <<childVars, apiVars, fnVars, uiVars, histVars>>

\* select { case p.logChan <- entry: default: }
SendLogRetry(t) ==
    LET p == ThreadProc(t) IN
    /\ Alive
    /\ slPc[t] = "send2"
    /\ IF ChanHasRoom(logChan[p], LogChanCap)
       THEN /\ logChan' = [logChan EXCEPT ![p] = Append(@, slEnt[t])]
            /\ lostEntry' = lostEntry
       ELSE /\ logChan' = logChan
            /\ lostEntry' = lostEntry \cup {slEnt[t]}
    /\ slPc' = [slPc EXCEPT ![t] = "none"]
    /\ UNCHANGED <<created, running, successCount, failedCount, cmd, scriptPath,
                   resultChan>>
    /\ UNCHANGED <<started, procOf, runPc, runResult, pumpPc, pumpCur, slEnt, seqNo>>
    /\ UNCHANGED <<childVars, apiVars, fnVars, uiVars>>
    /\ UNCHANGED <<emitS, emitF, pubCount, sendResCalls, spawnFailed, stopped,
                   cancelled, pubAfterCancel>>

SendLogStep(t) == SendLogTry(t) \/ SendLogDrop(t) \/ SendLogRetry(t)

(***************************************************************************)
(* Processor.run, one goroutine per run.                                   *)
(***************************************************************************)
RunThread(r) == <<r, "run">>

RunAt(r, pc) ==
    /\ Alive
    /\ runPc[r] = pc
    /\ slPc[RunThread(r)] = "none"

\* p.sendLog(LogInfo, "Input: ...")
RunInput(r) ==
    /\ RunAt(r, "input")
    /\ CallSendLog(RunThread(r), "INFO", "input")
    /\ runPc' = [runPc EXCEPT ![r] = "launch"]
    /\ UNCHANGED <<started, procOf, runResult, pumpPc, pumpCur>>
    /\ UNCHANGED <<procVars, childVars, apiVars, fnVars, uiVars, histVars>>

\* buildArgs, exec.Command, p.sendLog(LogInfo, "Running: ..." / "Starting ...")
RunLaunch(r) ==
    /\ RunAt(r, "launch")
    /\ CallSendLog(RunThread(r), "INFO", "running")
    /\ runPc' = [runPc EXCEPT ![r] = "setcmd"]
    /\ UNCHANGED <<started, procOf, runResult, pumpPc, pumpCur>>
    /\ UNCHANGED <<procVars, childVars, apiVars, fnVars, uiVars, histVars>>

\* p.mu.Lock(); p.cmd = cmd; p.mu.Unlock()
RunSetCmd(r) ==
    /\ RunAt(r, "setcmd")
    /\ cmd' = [cmd EXCEPT ![procOf[r]] = r]
    /\ runPc' = [runPc EXCEPT ![r] = "pipes"]
    /\ UNCHANGED <<created, running, successCount, failedCount, scriptPath,
                   logChan, resultChan>>
    /\ UNCHANGED <<started, procOf, runResult, pumpPc, pumpCur, slPc, slEnt, seqNo>>
    /\ UNCHANGED <<childVars, apiVars, fnVars, uiVars, histVars>>

\* Variant: a pipe failure ends the run without a result.
RunPipesNoResult(r) ==
    /\ RunAt(r, "pipes")
    /\ \E ok \in BOOLEAN :
         IF ok
         THEN /\ runPc' = [runPc EXCEPT ![r] = "spawn"]
              /\ NoSendLog
         ELSE /\ CallSendLog(RunThread(r), "ERROR", "pipeerr")
              /\ runPc' = [runPc EXCEPT ![r] = "defer"]
    /\ UNCHANGED <<started, procOf, runResult, pumpPc, pumpCur>>
    /\ UNCHANGED <<procVars, childVars, apiVars, fnVars, uiVars, histVars>>

\* cmd.StdoutPipe(), cmd.StderrPipe(): either may fail.
RunPipes(r) ==
    /\ RunAt(r, "pipes")
    /\ \E ok \in BOOLEAN :
         IF ok
         THEN /\ runPc' = [runPc EXCEPT ![r] = "spawn"]
              /\ NoSendLog
              /\ runResult' = runResult
         ELSE /\ CallSendLog(RunThread(r), "ERROR", "pipeerr")
              /\ runResult' = [runResult EXCEPT ![r] = FailedStartResult(r)]
              /\ runPc' = [runPc EXCEPT ![r] = "sendresult"]
    /\ UNCHANGED <<started, procOf, pumpPc, pumpCur>>
    /\ UNCHANGED <<procVars, childVars, apiVars, fnVars, uiVars, histVars>>

\* cmd.Start(), and on success wg.Add(2) and the two `go func` statements.
RunSpawn(r) ==
    /\ RunAt(r, "spawn")
    /\ \E ok \in BOOLEAN :
         IF ok
         THEN /\ child' = [child EXCEPT ![r] = "running"]
              /\ pumpPc' = [pumpPc EXCEPT ![r] = [k \in Streams |-> "read"]]
              /\ runPc' = [runPc EXCEPT ![r] = "wgwait"]
              /\ NoSendLog
              /\ UNCHANGED <<runResult, spawnFailed>>
         ELSE /\ CallSendLog(RunThread(r), "ERROR", "starterr")
              /\ runResult' = [runResult EXCEPT ![r] = FailedStartResult(r)]
              /\ runPc' = [runPc EXCEPT ![r] = "sendresult"]
              /\ spawnFailed' = [spawnFailed EXCEPT ![r] = TRUE]
              /\ UNCHANGED <<child, pumpPc>>
    /\ UNCHANGED <<started, procOf, pumpCur>>
    /\ UNCHANGED <<exitCode, pipe, written, procSync>>
    /\ UNCHANGED <<procVars, apiVars, fnVars, uiVars>>
    /\ UNCHANGED <<emitS, emitF, pubCount, sendResCalls, stopped, cancelled,
                   pubAfterCancel, lostEntry>>

\* Variant: run() does not wait for the readOutput goroutines.
PumpsDoneNoWait(r) == TRUE

\* wg.Wait(): both readOutput goroutines have returned.
PumpsDone(r) == \A k \in Streams : pumpPc[r][k] = "done"

RunWgWait(r) ==
    /\ RunAt(r, "wgwait")
    /\ PumpsDone(r)
    /\ runPc' = [runPc EXCEPT ![r] = "cmdwait"]
    /\ UNCHANGED <<started, procOf, runResult, pumpPc, pumpCur, slPc, slEnt, seqNo>>
    /\ UNCHANGED <<procVars, childVars, apiVars, fnVars, uiVars, histVars>>

\* exitErr := cmd.Wait(): returns once the child has exited.
RunCmdWait(r) ==
    /\ RunAt(r, "cmdwait")
    /\ child[r] = "exited"
    /\ runPc' = [runPc EXCEPT ![r] = "readcounts"]
    /\ UNCHANGED <<started, procOf, runResult, pumpPc, pumpCur, slPc, slEnt, seqNo>>
    /\ UNCHANGED <<procVars, childVars, apiVars, fnVars, uiVars, histVars>>

\* Reads the tallies under p.mu, derives the result, and reports an
\* abnormal exit that no tallied failure explains.
RunReadCounts(r) ==
    LET p == procOf[r]
        s == successCount[p]
        f == failedCount[p]
        exitOk == exitCode[r] = 0
    IN
    /\ RunAt(r, "readcounts")
    /\ runResult' = [runResult EXCEPT ![r] = ExitResult(s, f, exitOk, r)]
    /\ IF SynthFailure(f, exitOk)
       THEN CallSendLog(RunThread(r), "ERROR", "exiterr")
       ELSE NoSendLog
    /\ procSync' = [procSync EXCEPT ![r] = TRUE]
    /\ runPc' = [runPc EXCEPT ![r] = "sendresult"]
    /\ UNCHANGED <<started, procOf, pumpPc, pumpCur>>
    /\ UNCHANGED <<child, exitCode, pipe, written>>
    /\ UNCHANGED <<procVars, apiVars, fnVars, uiVars, histVars>>

\* Variant: run() logs one more entry after it has published the result.
RunSendResultThenLog(r) ==
    LET p == procOf[r] IN
    /\ RunAt(r, "sendresult")
    /\ IF ChanHasRoom(resultChan[p], ResultChanCap)
       THEN /\ resultChan' = [resultChan EXCEPT ![p] = Append(@, runResult[r])]
            /\ pubCount' = [pubCount EXCEPT ![r] = @ + 1]
            /\ pubAfterCancel' = [pubAfterCancel EXCEPT ![r] = cancelled[p]]
       ELSE UNCHANGED <<resultChan, pubCount, pubAfterCancel>>
    /\ sendResCalls' = [sendResCalls EXCEPT ![r] = @ + 1]
    /\ runPc' = [runPc EXCEPT ![r] = "defer"]
    /\ CallSendLog(RunThread(r), "INFO", "info")
    /\ UNCHANGED <<created, running, successCount, failedCount, cmd, scriptPath,
                   logChan>>
    /\ UNCHANGED <<started, procOf, runResult, pumpPc, pumpCur>>
    /\ UNCHANGED <<childVars, apiVars, fnVars, uiVars>>
    /\ UNCHANGED <<emitS, emitF, spawnFailed, stopped, cancelled, lostEntry>>

\* Processor.sendResult: select { case p.resultChan <- result: default: }
RunSendResult(r) ==
    LET p == procOf[r] IN
    /\ RunAt(r, "sendresult")
    /\ IF ChanHasRoom(resultChan[p], ResultChanCap)
       THEN /\ resultChan' = [resultChan EXCEPT ![p] = Append(@, runResult[r])]
            /\ pubCount' = [pubCount EXCEPT ![r] = @ + 1]
            /\ pubAfterCancel' = [pubAfterCancel EXCEPT ![r] = cancelled[p]]
       ELSE UNCHANGED <<resultChan, pubCount, pubAfterCancel>>
    /\ sendResCalls' = [sendResCalls EXCEPT ![r] = @ + 1]
    /\ runPc' = [runPc EXCEPT ![r] = "defer"]
    /\ UNCHANGED <<created, running, successCount, failedCount, cmd, scriptPath,
                   logChan>>
    /\ UNCHANGED <<started, procOf, runResult, pumpPc, pumpCur, slPc, slEnt, seqNo>>
    /\ UNCHANGED <<childVars, apiVars, fnVars, uiVars>>
    /\ UNCHANGED <<emitS, emitF, spawnFailed, stopped, cancelled, lostEntry>>

\* Variant: run() returns without the deferred reset of p.running.
RunDeferKeepsRunning(r) ==
    /\ RunAt(r, "defer")
    /\ runPc' = [runPc EXCEPT ![r] = "done"]
    /\ UNCHANGED <<started, procOf, runResult, pumpPc, pumpCur, slPc, slEnt, seqNo>>
    /\ UNCHANGED <<procVars, childVars, apiVars, fnVars, uiVars, histVars>>

\* The deferred func: p.mu.Lock(); p.running = false; p.mu.Unlock()
RunDefer(r) ==
    /\ RunAt(r, "defer")
    /\ running' = [running EXCEPT ![procOf[r]] = FALSE]
    /\ runPc' = [runPc EXCEPT ![r] = "done"]
    /\ UNCHANGED <<created, successCount, failedCount, cmd, scriptPath, logChan,
                   resultChan>>
    /\ UNCHANGED <<started, procOf, runResult, pumpPc, pumpCur, slPc, slEnt, seqNo>>
    /\ UNCHANGED <<childVars, apiVars, fnVars, uiVars, histVars>>

(***************************************************************************)
(* Processor.readOutput, one goroutine per stream of a run.                *)
(***************************************************************************)
PumpThread(r, k) == <<r, k>>

PumpAt(r, k, pc) ==
    /\ Alive
    /\ pumpPc[r][k] = pc
    /\ slPc[PumpThread(r, k)] = "none"

\* scanner.Scan() returns a line: trim, skip blanks and separators, match
\* the level prefix.
PumpRead(r, k) ==
    /\ PumpAt(r, k, "read")
    /\ pipe[r][k] # <<>>
    /\ LET l == Head(pipe[r][k])
           level == LineLevel(l)
       IN  /\ pipe' = [pipe EXCEPT ![r][k] = Tail(@)]
           /\ IF LineSkipped(l)
              THEN /\ NoSendLog
                   /\ UNCHANGED <<pumpPc, pumpCur>>
              ELSE IF IsSuccessEntry(level, l) \/ IsFailureEntry(level, l)
              THEN /\ pumpPc' = [pumpPc EXCEPT ![r][k] = "count"]
                   /\ pumpCur' = [pumpCur EXCEPT ![r][k] = l]
                   /\ NoSendLog
              ELSE /\ CallSendLog(PumpThread(r, k), level, l)
                   /\ UNCHANGED <<pumpPc, pumpCur>>
    /\ UNCHANGED <<started, procOf, runPc, runResult>>
    /\ UNCHANGED <<child, exitCode, written, procSync>>
    /\ UNCHANGED <<procVars, apiVars, fnVars, uiVars, histVars>>

\* Variant: a line is tallied only when the queue has room for its entry.
PumpCountIfRoom(r, k) ==
    LET p == procOf[r]
        l == pumpCur[r][k]
        level == LineLevel(l)
        room == ChanHasRoom(logChan[p], LogChanCap)
    IN
    /\ PumpAt(r, k, "count")
    /\ successCount' = [successCount EXCEPT ![p] =
                           IF room /\ IsSuccessEntry(level, l) THEN @ + 1 ELSE @]
    /\ failedCount' = [failedCount EXCEPT ![p] =
                          IF room /\ IsFailureEntry(level, l) THEN @ + 1 ELSE @]
    /\ procSync' = [procSync EXCEPT ![r] = TRUE]
    /\ CallSendLog(PumpThread(r, k), level, l)
    /\ pumpPc' = [pumpPc EXCEPT ![r][k] = "read"]
    /\ pumpCur' = [pumpCur EXCEPT ![r][k] = "none"]
    /\ UNCHANGED <<created, running, cmd, scriptPath, logChan, resultChan>>
    /\ UNCHANGED <<started, procOf, runPc, runResult>>
    /\ UNCHANGED <<child, exitCode, pipe, written>>
    /\ UNCHANGED <<apiVars, fnVars, uiVars, histVars>>

\* p.mu.Lock(); p.successCount++ (or p.failedCount++); p.mu.Unlock();
\* then p.sendLog(level, message).
PumpCount(r, k) ==
    LET p == procOf[r]
        l == pumpCur[r][k]
        level == LineLevel(l)
    IN
    /\ PumpAt(r, k, "count")
    /\ successCount' = [successCount EXCEPT ![p] =
                           IF IsSuccessEntry(level, l) THEN @ + 1 ELSE @]
    /\ failedCount' = [failedCount EXCEPT ![p] =
                          IF IsFailureEntry(level, l) THEN @ + 1 ELSE @]
    /\ procSync' = [procSync EXCEPT ![r] = TRUE]
    /\ CallSendLog(PumpThread(r, k), level, l)
    /\ pumpPc' = [pumpPc EXCEPT ![r][k] = "read"]
    /\ pumpCur' = [pumpCur EXCEPT ![r][k] = "none"]
    /\ UNCHANGED <<created, running, cmd, scriptPath, logChan, resultChan>>
    /\ UNCHANGED <<started, procOf, runPc, runResult>>
    /\ UNCHANGED <<child, exitCode, pipe, written>>
    /\ UNCHANGED <<apiVars, fnVars, uiVars, histVars>>

\* scanner.Scan() returns false: the pipe is drained and its write end closed.
PumpEOF(r, k) ==
    /\ PumpAt(r, k, "read")
    /\ pipe[r][k] = <<>>
    /\ child[r] = "exited"
    /\ pumpPc' = [pumpPc EXCEPT ![r][k] = "done"]
    /\ UNCHANGED <<started, procOf, runPc, runResult, pumpCur, slPc, slEnt, seqNo>>
    /\ UNCHANGED <<procVars, childVars, apiVars, fnVars, uiVars, histVars>>

(***************************************************************************)
(* The child worker process: an opaque actor that writes lines to its two  *)
(* pipes and exits.                                                        *)
(***************************************************************************)
\* The worker writes one line to one of its pipes.
WorkerWrite(r) ==
    /\ Alive
    /\ child[r] = "running"
    /\ written[r] < MaxLines
    /\ \E k \in Streams, l \in Lines :
         /\ pipe' = [pipe EXCEPT ![r][k] = Append(@, l)]
         /\ emitS' = [emitS EXCEPT ![r] = IF l = "succ" THEN @ + 1 ELSE @]
         /\ emitF' = [emitF EXCEPT ![r] = IF l = "fail" THEN @ + 1 ELSE @]
    /\ written' = [written EXCEPT ![r] = @ + 1]
    /\ UNCHANGED <<child, exitCode, procSync>>
    /\ UNCHANGED <<procVars, runVars, apiVars, fnVars, uiVars>>
    /\ UNCHANGED <<pubCount, sendResCalls, spawnFailed, stopped, cancelled,
                   pubAfterCancel, lostEntry>>

\* The worker exits by itself, cleanly or with a failure status.
WorkerExit(r) ==
    /\ Alive
    /\ child[r] = "running"
    /\ \E code \in {0, 1} : exitCode' = [exitCode EXCEPT ![r] = code]
    /\ child' = [child EXCEPT ![r] = "exited"]
    /\ UNCHANGED <<pipe, written, procSync>>
    /\ UNCHANGED <<procVars, runVars, apiVars, fnVars, uiVars, histVars>>

(***************************************************************************)
(* Processor.Stop.  The read of p.cmd.Process is not ordered after the     *)
(* write cmd.Start() makes until a later p.mu critical section of the run  *)
(* or of a readOutput goroutine: before that it may still see nil.         *)
(***************************************************************************)
RunActive(r) == runPc[r] \notin {"none", "done"}

StopBody(p) ==
    LET r == cmd[p] IN
    /\ running' = [running EXCEPT ![p] = FALSE]
    /\ stopped' = [x \in Runs |->
                      stopped[x] \/ (running[p] /\ procOf[x] = p /\ RunActive(x))]
    /\ IF r # 0 /\ child[r] # "none"
       THEN \E seen \in (IF procSync[r] THEN {TRUE} ELSE BOOLEAN) :
              IF seen /\ child[r] = "running"
              THEN /\ child' = [child EXCEPT ![r] = "exited"]
                   /\ exitCode' = [exitCode EXCEPT ![r] = 2]
              ELSE UNCHANGED <<child, exitCode>>
       ELSE UNCHANGED <<child, exitCode>>
    /\ UNCHANGED <<created, successCount, failedCount, cmd, scriptPath, logChan,
                   resultChan>>
    /\ UNCHANGED <<pipe, written, procSync>>
    /\ UNCHANGED runVars
    /\ UNCHANGED <<emitS, emitF, pubCount, sendResCalls, spawnFailed,
                   pubAfterCancel, lostEntry>>

\* Processor.Start: the critical section, then `go p.run()`; scriptPath is
\* already set.  Launches run started + 1 on Processor p.
StartAccepted(p) == ~running[p]

LaunchRun(p) ==
    LET r == started + 1 IN
    /\ running' = [running EXCEPT ![p] = TRUE]
    /\ successCount' = [successCount EXCEPT ![p] = 0]
    /\ failedCount' = [failedCount EXCEPT ![p] = 0]
    /\ started' = r
    /\ procOf' = [procOf EXCEPT ![r] = p]
    /\ runPc' = [runPc EXCEPT ![r] = "input"]
    /\ startRet' = [startRet EXCEPT ![r] = "nil"]
    /\ lastStart' = [proc |-> p, ret |-> "nil", run |-> r, bit |-> 1 - lastStart.bit]

(***************************************************************************)
(* tui.Model: the Bubble Tea event loop.  Update handles one message at a  *)
(* time; uiPc # "idle" while it is inside one of its two drain loops.      *)
(***************************************************************************)
UIIdle == Alive /\ uiPc = "idle"

UIFrame == UNCHANGED <<procVars, runVars, childVars, apiVars, fnVars, histVars>>

\* Variant: cancelling shows the Results screen at once.
UICancelShowsResults ==
    /\ UIIdle
    /\ processing
    /\ IF uiProc # 0
       THEN /\ StopBody(uiProc)
            /\ cancelled' = [cancelled EXCEPT ![uiProc] = TRUE]
       ELSE UNCHANGED <<procVars, runVars, childVars, histVars>>
    /\ processing' = FALSE
    /\ screen' = "Results"
    /\ UNCHANGED <<uiProc, logs, filesDone, filesTotal, uiResult,
                   focusedField, inputDir, formVars, uiErr, quit, listeners,
                   doneMsgs, pollPending, uiPc>>
    /\ UNCHANGED <<apiVars, fnVars>>
    /\ UNCHANGED browseVars

\* Update, case "ctrl+c" while m.processing: m.processor.Stop(),
\* m.processing = false.  The screen is left as it is.
UICancel ==
    /\ UIIdle
    /\ processing
    /\ IF uiProc # 0
       THEN /\ StopBody(uiProc)
            /\ cancelled' = [cancelled EXCEPT ![uiProc] = TRUE]
       ELSE UNCHANGED <<procVars, runVars, childVars, histVars>>
    /\ processing' = FALSE
    /\ UNCHANGED <<screen, uiProc, logs, filesDone, filesTotal, uiResult,
                   focusedField, inputDir, formVars, uiErr, quit, listeners,
                   doneMsgs, pollPending, uiPc>>
    /\ UNCHANGED <<apiVars, fnVars>>
    /\ UNCHANGED browseVars

\* Variant: the quit keys do not look at m.processing.
UIQuitWhileProcessing ==
    /\ UIIdle
    /\ quit' = TRUE
    /\ UNCHANGED <<screen, processing, uiProc, logs, filesDone, filesTotal,
                   uiResult, focusedField, inputDir, formVars, uiErr, listeners,
                   doneMsgs, pollPending, uiPc>>
    /\ UIFrame
    /\ UNCHANGED browseVars

\* Update, case "ctrl+c" when not processing, and case "q" outside the form.
UIQuit ==
    /\ UIIdle
    /\ ~processing
    /\ quit' = TRUE
    /\ UNCHANGED <<screen, processing, uiProc, logs, filesDone, filesTotal,
                   uiResult, focusedField, inputDir, formVars, uiErr, listeners,
                   doneMsgs, pollPending, uiPc>>
    /\ UIFrame
    /\ UNCHANGED browseVars

\* Variant: leaving the browser with esc puts m.selectedDir back into the
\* input-directory field.
UIEscRewritesDir ==
    /\ UIIdle
    /\ screen \in {"FileBrowser", "Params", "Results"}
    /\ screen' = IF screen = "FileBrowser" THEN "Params" ELSE "Welcome"
    /\ inputs' = IF screen = "FileBrowser"
                 THEN [inputs EXCEPT ![FocusInputDir] = selectedDir]
                 ELSE inputs
    /\ UNCHANGED <<processing, uiProc, logs, filesDone, filesTotal, uiResult,
                   focusedField, inputDir, selectedDir, currentDir, uiErr, quit,
                   listeners, doneMsgs, pollPending, uiPc>>
    /\ UIFrame
    /\ UNCHANGED browseVars

\* Variant: esc also leaves the Processing screen.
UIEscLeavesProcessing ==
    /\ UIIdle
    /\ screen \in {"FileBrowser", "Params", "Results", "Processing"}
    /\ screen' = IF screen = "FileBrowser" THEN "Params" ELSE "Welcome"
    /\ UNCHANGED <<processing, uiProc, logs, filesDone, filesTotal, uiResult,
                   focusedField, inputDir, formVars, uiErr, quit, listeners,
                   doneMsgs, pollPending, uiPc>>
    /\ UIFrame
    /\ UNCHANGED browseVars

\* Update, case "esc".
UIEsc ==
    /\ UIIdle
    /\ screen \in {"FileBrowser", "Params", "Results"}
    /\ screen' = IF screen = "FileBrowser" THEN "Params" ELSE "Welcome"
    /\ UNCHANGED <<processing, uiProc, logs, filesDone, filesTotal, uiResult,
                   focusedField, inputDir, formVars, uiErr, quit, listeners,
                   doneMsgs, pollPending, uiPc>>
    /\ UIFrame
    /\ UNCHANGED browseVars

\* updateWelcome, case "enter", " ".
UIWelcomeEnter ==
    /\ UIIdle
    /\ screen = "Welcome"
    /\ screen' = "Params"
    /\ inputs' = [inputs EXCEPT ![FocusInputDir] = selectedDir]
    /\ UNCHANGED <<processing, uiProc, logs, filesDone, filesTotal, uiResult,
                   focusedField, inputDir, selectedDir, currentDir, uiErr, quit,
                   listeners, doneMsgs, pollPending, uiPc>>
    /\ UIFrame
    /\ UNCHANGED browseVars

\* updateParams, case "tab", "down" / "shift+tab", "up" / "enter" off the
\* start button.
UIParamsFocus ==
    /\ UIIdle
    /\ screen = "Params"
    /\ \E d \in {1, FocusFieldCount - 1} :
         focusedField' = (focusedField + d) % FocusFieldCount
    /\ UNCHANGED <<screen, processing, uiProc, logs, filesDone, filesTotal,
                   uiResult, uiErr, quit, inputDir, formVars, listeners,
                   doneMsgs,
                   pollPending, uiPc>>
    /\ UIFrame
    /\ UNCHANGED browseVars

\* updateParams, case "b", "ctrl+b": the browser opens and a listing of
\* m.currentDir is requested.
UIParamsBrowse ==
    /\ UIIdle
    /\ screen = "Params"
    /\ BagCardinality(loads) < MaxLoads
    /\ screen' = "FileBrowser"
    /\ loads' = loads (+) SetToBag({currentDir})
    /\ UNCHANGED <<processing, uiProc, logs, filesDone, filesTotal, uiResult,
                   focusedField, inputDir, formVars, uiErr, quit, listeners,
                   doneMsgs, pollPending, uiPc>>
    /\ UNCHANGED <<entries, cursor, browseScroll, height>>
    /\ UIFrame

\* The number of components of a path.
Depth(d) == CHOOSE k \in 0..MaxDepth : d \in PathsAt(k)

\* updateFileBrowser, case "up", "k".
UIBrowserUp ==
    /\ UIIdle
    /\ screen = "FileBrowser"
    /\ cursor > 0
    /\ cursor' = cursor - 1
    /\ browseScroll' = IF cursor - 1 < browseScroll THEN cursor - 1
                       ELSE browseScroll
    /\ UNCHANGED <<screen, processing, uiProc, logs, filesDone, filesTotal,
                   uiResult, focusedField, inputDir, formVars, uiErr, quit,
                   listeners, doneMsgs, pollPending, uiPc>>
    /\ UNCHANGED <<entries, height, loads>>
    /\ UIFrame

\* updateFileBrowser, case "down", "j".
UIBrowserDown ==
    /\ UIIdle
    /\ screen = "FileBrowser"
    /\ cursor < Len(entries.names) - 1
    /\ cursor' = cursor + 1
    /\ browseScroll' = IF cursor + 1 >= browseScroll + MaxVisible(height)
                       THEN cursor + 1 - MaxVisible(height) + 1
                       ELSE browseScroll
    /\ UNCHANGED <<screen, processing, uiProc, logs, filesDone, filesTotal,
                   uiResult, focusedField, inputDir, formVars, uiErr, quit,
                   listeners, doneMsgs, pollPending, uiPc>>
    /\ UNCHANGED <<entries, height, loads>>
    /\ UIFrame

\* updateFileBrowser, case "enter", "right", "l" with an entry under the
\* cursor: m.currentDir becomes the join of m.currentDir and the entry's
\* name, and a listing of it is requested.
UIBrowserEnter ==
    /\ UIIdle
    /\ screen = "FileBrowser"
    /\ Len(entries.names) > 0
    /\ cursor < Len(entries.names)
    /\ Depth(currentDir) < MaxDepth
    /\ BagCardinality(loads) < MaxLoads
    /\ LET newPath == Join(currentDir, entries.names[cursor + 1]) IN
         /\ currentDir' = newPath
         /\ loads' = loads (+) SetToBag({newPath})
    /\ UNCHANGED <<screen, processing, uiProc, logs, filesDone, filesTotal,
                   uiResult, focusedField, inputDir, inputs, selectedDir, uiErr,
                   quit, listeners, doneMsgs, pollPending, uiPc>>
    /\ UNCHANGED <<entries, cursor, browseScroll, height>>
    /\ UIFrame

\* updateFileBrowser, case "backspace", "h", "left": m.currentDir becomes
\* its parent, and a listing of it is requested.
UIBrowserBack ==
    /\ UIIdle
    /\ screen = "FileBrowser"
    /\ ParentDir(currentDir) # currentDir
    /\ BagCardinality(loads) < MaxLoads
    /\ currentDir' = ParentDir(currentDir)
    /\ loads' = loads (+) SetToBag({ParentDir(currentDir)})
    /\ UNCHANGED <<screen, processing, uiProc, logs, filesDone, filesTotal,
                   uiResult, focusedField, inputDir, inputs, selectedDir, uiErr,
                   quit, listeners, doneMsgs, pollPending, uiPc>>
    /\ UNCHANGED <<entries, cursor, browseScroll, height>>
    /\ UIFrame

\* Variant: a listing that arrives leaves the cursor and the scroll offset
\* where they are.
UIDirLoadedKeepsCursor ==
    /\ UIIdle
    /\ \E d \in BagToSet(loads) :
         /\ loads' = loads (-) SetToBag({d})
         /\ entries' = [dir |-> d, names |-> ListDir(d)]
         /\ uiErr' = IF ReadDirFails(d) THEN "readdir" ELSE uiErr
    /\ UNCHANGED <<cursor, browseScroll>>
    /\ UNCHANGED <<screen, processing, uiProc, logs, filesDone, filesTotal,
                   uiResult, focusedField, inputDir, formVars, quit,
                   listeners, doneMsgs, pollPending, uiPc, height>>
    /\ UIFrame

\* Update, case directoryLoadedMsg: a loadDirectory command in flight has
\* returned; its listing replaces m.entries, whatever m.currentDir is now.
UIDirLoaded ==
    /\ UIIdle
    /\ \E d \in BagToSet(loads) :
         /\ loads' = loads (-) SetToBag({d})
         /\ entries' = [dir |-> d, names |-> ListDir(d)]
         /\ uiErr' = IF ReadDirFails(d) THEN "readdir" ELSE uiErr
    /\ cursor' = 0
    /\ browseScroll' = 0
    /\ UNCHANGED <<screen, processing, uiProc, logs, filesDone, filesTotal,
                   uiResult, focusedField, inputDir, formVars, quit,
                   listeners, doneMsgs, pollPending, uiPc, height>>
    /\ UIFrame

\* Update, case tea.WindowSizeMsg.
UIWindowSize ==
    /\ UIIdle
    /\ \E h \in Heights \ {height} : height' = h
    /\ UNCHANGED <<screen, processing, uiProc, logs, filesDone, filesTotal,
                   uiResult, focusedField, inputDir, formVars, uiErr, quit,
                   listeners, doneMsgs, pollPending, uiPc>>
    /\ UNCHANGED <<entries, cursor, browseScroll, loads>>
    /\ UIFrame

\* updateFileBrowser, case "s", " ".
UIBrowserSelect ==
    /\ UIIdle
    /\ screen = "FileBrowser"
    /\ selectedDir' = currentDir
    /\ inputs' = [inputs EXCEPT ![FocusInputDir] = currentDir]
    /\ screen' = "Params"
    /\ UNCHANGED <<processing, uiProc, logs, filesDone, filesTotal, uiResult,
                   focusedField, inputDir, currentDir, uiErr, quit, listeners,
                   doneMsgs, pollPending, uiPc>>
    /\ UIFrame
    /\ UNCHANGED browseVars

\* updateParams, any other key or a paste on a text field: the focused
\* input takes the new text.
UIParamsType ==
    /\ UIIdle
    /\ screen = "Params"
    /\ focusedField \in FormFields
    /\ \E text \in TypedTexts : inputs' = [inputs EXCEPT ![focusedField] = text]
    /\ UNCHANGED <<screen, processing, uiProc, logs, filesDone, filesTotal,
                   uiResult, focusedField, inputDir, selectedDir, currentDir,
                   uiErr, quit, listeners, doneMsgs, pollPending, uiPc>>
    /\ UIFrame
    /\ UNCHANGED browseVars

\* updateResults, case "enter", " ", "r".
UIResultsRestart ==
    /\ UIIdle
    /\ screen = "Results"
    /\ screen' = "Welcome"
    /\ logs' = <<>>
    /\ filesDone' = 0
    /\ uiErr' = "none"
    /\ UNCHANGED <<processing, uiProc, filesTotal, uiResult, focusedField,
                   inputDir, formVars, quit,
                   listeners, doneMsgs, pollPending, uiPc>>
    /\ UIFrame
    /\ UNCHANGED browseVars

\* Variant: a start leaves m.logs as it is.
StartProcessingKeepsLogs(maxProcs, maxRuns) ==
    LET p == created + 1 IN
    /\ UIIdle
    /\ screen = "Params"
    /\ focusedField = FocusStartButton
    /\ created < maxProcs
    /\ started < maxRuns
    /\ pollPending < MaxPending
    /\ created' = p
    /\ uiProc' = p
    /\ \E d \in InputDirs, found \in BOOLEAN :
         /\ inputDir' = d
         /\ IF ValidateInputDir(d) # "nil"
            THEN /\ uiErr' = ValidateInputDir(d)
                 /\ UNCHANGED <<screen, processing, logs, filesDone, filesTotal,
                                listeners, pollPending>>
                 /\ UNCHANGED <<running, successCount, failedCount, scriptPath>>
                 /\ UNCHANGED <<started, procOf, runPc, startRet, lastStart>>
            ELSE IF ~found
            THEN /\ uiErr' = "notfound"
                 /\ filesTotal' = CountLASFiles(d)
                 /\ filesDone' = 0
                 /\ UNCHANGED <<screen, processing, logs, listeners, pollPending>>
                 /\ UNCHANGED <<running, successCount, failedCount, scriptPath>>
                 /\ UNCHANGED <<started, procOf, runPc, startRet, lastStart>>
            ELSE /\ scriptPath' = [scriptPath EXCEPT ![p] = TRUE]
                 /\ filesTotal' = CountLASFiles(d)
                 /\ filesDone' = 0
                 /\ screen' = "Processing"
                 /\ logs' = logs
                 /\ IF StartAccepted(p)
                    THEN /\ LaunchRun(p)
                         /\ uiErr' = "none"
                         /\ processing' = TRUE
                         /\ listeners' = listeners \cup {p}
                         /\ pollPending' = pollPending + 1
                    ELSE /\ uiErr' = "already"
                         /\ processing' = FALSE
                         /\ lastStart' = [proc |-> p, ret |-> "already",
                                          run |-> 0, bit |-> 1 - lastStart.bit]
                         /\ UNCHANGED <<listeners, pollPending>>
                         /\ UNCHANGED <<running, successCount, failedCount>>
                         /\ UNCHANGED <<started, procOf, runPc, startRet>>
    /\ UNCHANGED <<uiResult, focusedField, quit, doneMsgs, uiPc, formVars>>
    /\ UNCHANGED <<cmd, logChan, resultChan>>
    /\ UNCHANGED <<runResult, pumpPc, pumpCur, slPc, slEnt, seqNo>>
    /\ UNCHANGED <<apiPc, childVars, histVars, fnVars>>
    /\ UNCHANGED browseVars

\* updateParams, case "enter" on the start button: startProcessing, while
\* fewer than maxProcs Processors have been constructed and fewer than
\* maxRuns runs started.
\* d: the input directory as the file system shows it; found: FindScripts
\* succeeds.
StartProcessing(maxProcs, maxRuns) ==
    LET p == created + 1 IN
    /\ UIIdle
    /\ screen = "Params"
    /\ focusedField = FocusStartButton
    /\ created < maxProcs
    /\ started < maxRuns
    /\ pollPending < MaxPending
    /\ created' = p
    /\ uiProc' = p
    /\ \E d \in InputDirs, found \in BOOLEAN :
         /\ inputDir' = d
         /\ IF ValidateInputDir(d) # "nil"
            THEN /\ uiErr' = ValidateInputDir(d)
                 /\ UNCHANGED <<screen, processing, logs, filesDone, filesTotal,
                                listeners, pollPending>>
                 /\ UNCHANGED <<running, successCount, failedCount, scriptPath>>
                 /\ UNCHANGED <<started, procOf, runPc, startRet, lastStart>>
            ELSE IF ~found
            THEN /\ uiErr' = "notfound"
                 /\ filesTotal' = CountLASFiles(d)
                 /\ filesDone' = 0
                 /\ UNCHANGED <<screen, processing, logs, listeners, pollPending>>
                 /\ UNCHANGED <<running, successCount, failedCount, scriptPath>>
                 /\ UNCHANGED <<started, procOf, runPc, startRet, lastStart>>
            ELSE /\ scriptPath' = [scriptPath EXCEPT ![p] = TRUE]
                 /\ filesTotal' = CountLASFiles(d)
                 /\ filesDone' = 0
                 /\ screen' = "Processing"
                 /\ logs' = <<>>
                 /\ IF StartAccepted(p)
                    THEN /\ LaunchRun(p)
                         /\ uiErr' = "none"
                         /\ processing' = TRUE
                         /\ listeners' = listeners \cup {p}
                         /\ pollPending' = pollPending + 1
                    ELSE /\ uiErr' = "already"
                         /\ processing' = FALSE
                         /\ lastStart' = [proc |-> p, ret |-> "already",
                                          run |-> 0, bit |-> 1 - lastStart.bit]
                         /\ UNCHANGED <<listeners, pollPending>>
                         /\ UNCHANGED <<running, successCount, failedCount>>
                         /\ UNCHANGED <<started, procOf, runPc, startRet>>
    /\ UNCHANGED <<uiResult, focusedField, quit, doneMsgs, uiPc, formVars>>
    /\ UNCHANGED <<cmd, logChan, resultChan>>
    /\ UNCHANGED <<runResult, pumpPc, pumpCur, slPc, slEnt, seqNo>>
    /\ UNCHANGED <<apiPc, childVars, histVars, fnVars>>
    /\ UNCHANGED browseVars

UIStartProcessing == StartProcessing(MaxProcs, MaxRuns)

\* startProcessing in RestartSpec: once MaxRuns runs have been started the
\* start button can be used again.
UIStartAgain ==
    /\ started >= MaxRuns
    /\ StartProcessing(MaxProcs + MaxRestarts, MaxRuns + MaxRestarts)

\* updateProcessing: every key that reaches it is ignored.
UIProcessingKey ==
    /\ UIIdle
    /\ screen = "Processing"
    /\ UNCHANGED uiVars
    /\ UIFrame

\* The command listenForResult returns: result := <-m.processor.ResultChan(),
\* run by the Bubble Tea runtime outside Update.
ListenRecv(p) ==
    /\ Alive
    /\ p \in listeners
    /\ resultChan[p] # <<>>
    /\ doneMsgs' = doneMsgs \cup {Head(resultChan[p])}
    /\ resultChan' = [resultChan EXCEPT ![p] = Tail(@)]
    /\ listeners' = listeners \ {p}
    /\ UNCHANGED <<created, running, successCount, failedCount, cmd, scriptPath,
                   logChan>>
    /\ UNCHANGED <<screen, processing, uiProc, logs, filesDone, filesTotal,
                   uiResult, focusedField, inputDir, formVars, uiErr, quit,
                   pollPending, uiPc>>
    /\ UNCHANGED <<runVars, childVars, apiVars, fnVars, histVars>>
    /\ UNCHANGED browseVars

\* Variant: the newest entry is put first.
AppendCappedNewestFirst(l, e) ==
    LET a == <<e>> \o l IN IF Len(a) > MaxLogs THEN SubSeq(a, 1, MaxLogs) ELSE a

\* The append of the PollLogsMsg loop: capped at m.maxLogs.
AppendCapped(l, e) ==
    LET a == Append(l, e) IN IF Len(a) > MaxLogs THEN Tail(a) ELSE a

\* The append of the ProcessingDoneMsg loop.
AppendFinal(l, e) == Append(l, e)

CountsAsDone(e) == IsSuccessEntry(e.level, e.msg)

\* Update, case PollLogsMsg: entry.
UIPollBegin ==
    /\ UIIdle
    /\ pollPending > 0
    /\ pollPending' = pollPending - 1
    /\ uiPc' = IF uiProc = 0 THEN "idle" ELSE "poll"
    /\ UNCHANGED <<screen, processing, uiProc, logs, filesDone, filesTotal,
                   uiResult, focusedField, inputDir, formVars, uiErr, quit,
                   listeners, doneMsgs>>
    /\ UIFrame
    /\ UNCHANGED browseVars

\* Variant: the drain loop reads the channel with a plain receive, which
\* waits for an entry when the channel is empty.
UIPollRecvBlocking ==
    /\ Alive
    /\ uiPc = "poll"
    /\ logChan[uiProc] # <<>>
    /\ LET e == Head(logChan[uiProc]) IN
         /\ logChan' = [logChan EXCEPT ![uiProc] = Tail(@)]
         /\ logs' = AppendCapped(logs, e)
         /\ filesDone' = IF CountsAsDone(e) THEN filesDone + 1 ELSE filesDone
    /\ UNCHANGED <<pollPending, uiPc>>
    /\ UNCHANGED <<created, running, successCount, failedCount, cmd, scriptPath,
                   resultChan>>
    /\ UNCHANGED <<screen, processing, uiProc, filesTotal, uiResult,
                   focusedField, inputDir, formVars, uiErr, quit, listeners,
                   doneMsgs>>
    /\ UNCHANGED <<runVars, childVars, apiVars, fnVars, histVars>>
    /\ UNCHANGED browseVars

\* Variant: the poll loop counts every entry it receives as a finished file.
UIPollRecvCountsAll ==
    /\ Alive
    /\ uiPc = "poll"
    /\ IF logChan[uiProc] # <<>>
       THEN LET e == Head(logChan[uiProc]) IN
            /\ logChan' = [logChan EXCEPT ![uiProc] = Tail(@)]
            /\ logs' = AppendCapped(logs, e)
            /\ filesDone' = filesDone + 1
            /\ UNCHANGED <<pollPending, uiPc>>
       ELSE /\ uiPc' = "idle"
            /\ pollPending' = IF processing THEN pollPending + 1 ELSE pollPending
            /\ UNCHANGED <<logChan, logs, filesDone>>
    /\ UNCHANGED <<created, running, successCount, failedCount, cmd, scriptPath,
                   resultChan>>
    /\ UNCHANGED <<screen, processing, uiProc, filesTotal, uiResult,
                   focusedField, inputDir, formVars, uiErr, quit, listeners,
                   doneMsgs>>
    /\ UNCHANGED <<runVars, childVars, apiVars, fnVars, histVars>>
    /\ UNCHANGED browseVars

\* Update, case PollLogsMsg: one round of the drain loop; on an empty
\* channel the handler ends and re-arms the timer if still processing.
UIPollRecv ==
    /\ Alive
    /\ uiPc = "poll"
    /\ IF logChan[uiProc] # <<>>
       THEN LET e == Head(logChan[uiProc]) IN
            /\ logChan' = [logChan EXCEPT ![uiProc] = Tail(@)]
            /\ logs' = AppendCapped(logs, e)
            /\ filesDone' = IF CountsAsDone(e) THEN filesDone + 1 ELSE filesDone
            /\ UNCHANGED <<pollPending, uiPc>>
       ELSE /\ uiPc' = "idle"
            /\ pollPending' = IF processing THEN pollPending + 1 ELSE pollPending
            /\ UNCHANGED <<logChan, logs, filesDone>>
    /\ UNCHANGED <<created, running, successCount, failedCount, cmd, scriptPath,
                   resultChan>>
    /\ UNCHANGED <<screen, processing, uiProc, filesTotal, uiResult,
                   focusedField, inputDir, formVars, uiErr, quit, listeners,
                   doneMsgs>>
    /\ UNCHANGED <<runVars, childVars, apiVars, fnVars, histVars>>
    /\ UNCHANGED browseVars

\* Update, case ProcessingDoneMsg: entry.
UIDoneBegin ==
    /\ UIIdle
    /\ \E msg \in doneMsgs :
         /\ doneMsgs' = doneMsgs \ {msg}
         /\ uiResult' = msg
    /\ processing' = FALSE
    /\ uiPc' = "finaldrain"
    /\ UNCHANGED <<screen, uiProc, logs, filesDone, filesTotal, focusedField,
                   inputDir, formVars,
                   uiErr, quit, listeners, pollPending>>
    /\ UIFrame
    /\ UNCHANGED browseVars

\* Variant: the handler reconciles and leaves without the final drain.
UIDoneRecvNoDrain ==
    /\ Alive
    /\ uiPc = "finaldrain"
    /\ filesDone' = IF uiResult.SuccessCount > 0
                    THEN uiResult.SuccessCount ELSE filesDone
    /\ filesTotal' = IF uiResult.TotalFiles > 0
                     THEN uiResult.TotalFiles ELSE filesTotal
    /\ screen' = "Results"
    /\ uiPc' = "idle"
    /\ UNCHANGED <<processing, uiProc, logs, uiResult, focusedField, inputDir,
                   formVars,
                   uiErr, quit, listeners, doneMsgs, pollPending>>
    /\ UIFrame
    /\ UNCHANGED browseVars

\* Update, case ProcessingDoneMsg: one round of the final drain; on an empty
\* channel the counters are reconciled and the screen becomes Results.
UIDoneRecv ==
    /\ Alive
    /\ uiPc = "finaldrain"
    /\ IF uiProc # 0 /\ logChan[uiProc] # <<>>
       THEN LET e == Head(logChan[uiProc]) IN
            /\ logChan' = [logChan EXCEPT ![uiProc] = Tail(@)]
            /\ logs' = AppendFinal(logs, e)
            /\ filesDone' = IF CountsAsDone(e) THEN filesDone + 1 ELSE filesDone
            /\ UNCHANGED <<screen, filesTotal, uiPc>>
       ELSE /\ filesDone' = IF uiResult.SuccessCount > 0
                            THEN uiResult.SuccessCount ELSE filesDone
            /\ filesTotal' = IF uiResult.TotalFiles > 0
                             THEN uiResult.TotalFiles ELSE filesTotal
            /\ screen' = "Results"
            /\ uiPc' = "idle"
            /\ UNCHANGED <<logChan, logs>>
    /\ UNCHANGED <<created, running, successCount, failedCount, cmd, scriptPath,
                   resultChan>>
    /\ UNCHANGED <<processing, uiProc, uiResult, focusedField, inputDir,
                   formVars, uiErr, quit,
                   listeners, doneMsgs, pollPending>>
    /\ UNCHANGED <<runVars, childVars, apiVars, fnVars, histVars>>
    /\ UNCHANGED browseVars

(***************************************************************************)
(* A caller of the exported Processor API (ApiSpec).                       *)
(***************************************************************************)
ApiFrame == UNCHANGED <<uiVars, fnVars>>

\* Variant: Start resets the tallies before it looks at p.running.
ApiStartResetsFirst ==
    LET p == ApiProc IN
    /\ apiPc = "idle"
    /\ IF ~StartAccepted(p)
       THEN /\ lastStart' = [proc |-> p, ret |-> "already", run |-> 0,
                            bit |-> 1 - lastStart.bit]
            /\ successCount' = [successCount EXCEPT ![p] = 0]
            /\ failedCount' = [failedCount EXCEPT ![p] = 0]
            /\ UNCHANGED <<created, running, cmd, scriptPath, logChan, resultChan>>
            /\ UNCHANGED <<runVars, apiPc, startRet>>
       ELSE /\ started < MaxRuns
            /\ \E found \in (IF scriptPath[p] THEN {TRUE} ELSE BOOLEAN) :
                 IF found
                 THEN /\ LaunchRun(p)
                      /\ scriptPath' = [scriptPath EXCEPT ![p] = TRUE]
                      /\ NoSendLog
                      /\ apiPc' = apiPc
                 ELSE /\ seqNo[ApiThread] < MaxStartFails
                      /\ running' = [running EXCEPT ![p] = TRUE]
                      /\ successCount' = [successCount EXCEPT ![p] = 0]
                      /\ failedCount' = [failedCount EXCEPT ![p] = 0]
                      /\ CallSendLog(ApiThread, "ERROR", "notfound")
                      /\ apiPc' = "notfound"
                      /\ UNCHANGED <<scriptPath, started, procOf, runPc,
                                     startRet, lastStart>>
            /\ UNCHANGED <<created, cmd, logChan, resultChan>>
            /\ UNCHANGED <<runResult, pumpPc, pumpCur>>
    /\ UNCHANGED <<childVars, histVars>>
    /\ ApiFrame

\* Processor.Start up to its return or, when FindScripts fails, up to its
\* sendLog call, while fewer than maxRuns runs have been started.
StartCall(maxRuns) ==
    LET p == ApiProc IN
    /\ apiPc = "idle"
    /\ IF ~StartAccepted(p)
       THEN /\ lastStart' = [proc |-> p, ret |-> "already", run |-> 0,
                            bit |-> 1 - lastStart.bit]
            /\ UNCHANGED <<procVars, runVars, apiPc, startRet>>
       ELSE /\ started < maxRuns
            /\ \E found \in (IF scriptPath[p] THEN {TRUE} ELSE BOOLEAN) :
                 IF found
                 THEN /\ LaunchRun(p)
                      /\ scriptPath' = [scriptPath EXCEPT ![p] = TRUE]
                      /\ NoSendLog
                      /\ apiPc' = apiPc
                 ELSE /\ seqNo[ApiThread] < MaxStartFails
                      /\ running' = [running EXCEPT ![p] = TRUE]
                      /\ successCount' = [successCount EXCEPT ![p] = 0]
                      /\ failedCount' = [failedCount EXCEPT ![p] = 0]
                      /\ CallSendLog(ApiThread, "ERROR", "notfound")
                      /\ apiPc' = "notfound"
                      /\ UNCHANGED <<scriptPath, started, procOf, runPc,
                                     startRet, lastStart>>
            /\ UNCHANGED <<created, cmd, logChan, resultChan>>
            /\ UNCHANGED <<runResult, pumpPc, pumpCur>>
    /\ UNCHANGED <<childVars, histVars>>
    /\ ApiFrame

ApiStart == StartCall(MaxRuns)

\* Start in ApiRestartSpec: a call after the first MaxRuns runs, made when
\* they have ended, never stopped, their workers having exited with status
\* 0 without writing a line, the log queue is drained and the result of
\* the last is still in the slot.
ApiStartAgain ==
    /\ started >= MaxRuns
    /\ \A r \in 1..started :
         /\ runPc[r] = "done"
         /\ child[r] = "exited" /\ exitCode[r] = 0 /\ written[r] = 0
         /\ ~stopped[r]
    /\ logChan[ApiProc] = <<>>
    /\ lostEntry = {}
    /\ resultChan[ApiProc] # <<>>
    /\ StartCall(MaxRuns + MaxRestarts)

\* Variant: the failed Start returns without resetting p.running.
ApiStartFailStaysRunning ==
    LET p == ApiProc IN
    /\ apiPc = "notfound"
    /\ slPc[ApiThread] = "none"
    /\ lastStart' = [proc |-> p, ret |-> "notfound", run |-> 0,
                     bit |-> 1 - lastStart.bit]
    /\ apiPc' = "idle"
    /\ UNCHANGED procVars
    /\ UNCHANGED <<runVars, childVars, startRet, histVars>>
    /\ ApiFrame

\* Processor.Start after a failed FindScripts: p.running = false; return err.
ApiStartFail ==
    LET p == ApiProc IN
    /\ apiPc = "notfound"
    /\ slPc[ApiThread] = "none"
    /\ running' = [running EXCEPT ![p] = FALSE]
    /\ lastStart' = [proc |-> p, ret |-> "notfound", run |-> 0,
                     bit |-> 1 - lastStart.bit]
    /\ apiPc' = "idle"
    /\ UNCHANGED <<created, successCount, failedCount, cmd, scriptPath, logChan,
                   resultChan>>
    /\ UNCHANGED <<runVars, childVars, startRet, histVars>>
    /\ ApiFrame

\* Processor.Stop.
ApiStop ==
    /\ apiPc = "idle"
    /\ StopBody(ApiProc)
    /\ UNCHANGED <<cancelled, apiVars>>
    /\ ApiFrame

\* A receive from LogChan().
ApiRecvLog ==
    /\ logChan[ApiProc] # <<>>
    /\ logChan' = [logChan EXCEPT ![ApiProc] = Tail(@)]
    /\ UNCHANGED <<created, running, successCount, failedCount, cmd, scriptPath,
                   resultChan>>
    /\ UNCHANGED <<runVars, childVars, apiVars, histVars>>
    /\ ApiFrame

\* A receive from ResultChan().
ApiRecvResult ==
    /\ resultChan[ApiProc] # <<>>
    /\ resultChan' = [resultChan EXCEPT ![ApiProc] = Tail(@)]
    /\ UNCHANGED <<created, running, successCount, failedCount, cmd, scriptPath,
                   logChan>>
    /\ UNCHANGED <<runVars, childVars, apiVars, histVars>>
    /\ ApiFrame

(***************************************************************************)
(* Specifications.                                                         *)
(***************************************************************************)
ProcessorSteps(followed) ==
    \/ \E t \in Threads : SendLogStep(t)
    \/ \E r \in followed :
         \/ RunInput(r) \/ RunLaunch(r) \/ RunSetCmd(r) \/ RunPipes(r)
         \/ RunSpawn(r) \/ RunWgWait(r) \/ RunCmdWait(r) \/ RunReadCounts(r)
         \/ RunSendResult(r) \/ RunDefer(r)
         \/ WorkerWrite(r) \/ WorkerExit(r)
    \/ \E r \in followed, k \in Streams :
         PumpRead(r, k) \/ PumpCount(r, k) \/ PumpEOF(r, k)

ProcessorNext == ProcessorSteps(FollowedRuns)

\* Update, case tea.KeyMsg: the global keys, then the screen's handler.
UIKeyMsg ==
    \/ UICancel \/ UIQuit \/ UIEsc \/ UIWelcomeEnter \/ UIParamsFocus
    \/ UIParamsType \/ UIParamsBrowse
    \/ UIBrowserUp \/ UIBrowserDown \/ UIBrowserEnter \/ UIBrowserBack
    \/ UIBrowserSelect \/ UIResultsRestart
    \/ UIStartProcessing \/ UIProcessingKey

\* The keys of a user who leaves the form as it comes up and does not open
\* the browser.
UIRunKeys ==
    \/ UICancel \/ UIQuit \/ UIEsc \/ UIWelcomeEnter \/ UIParamsFocus
    \/ UIResultsRestart \/ UIStartProcessing \/ UIProcessingKey

\* Update for that user; the directory listing requested at startup is not
\* delivered.
UINext ==
    \/ UIRunKeys
    \/ \E p \in Procs : ListenRecv(p)
    \/ UIPollBegin \/ UIPollRecv \/ UIDoneBegin \/ UIDoneRecv

Next == ProcessorNext \/ UINext

Spec == Init /\ [][Next]_vars

\* The caller has constructed the one Processor (processor.New).
ApiInit ==
    /\ created = 1
    /\ InitRest
    /\ NoCall

ApiNext ==
    \/ ProcessorNext
    \/ ApiStart \/ ApiStartFail \/ ApiStop \/ ApiRecvLog \/ ApiRecvResult

ApiSpec == ApiInit /\ [][ApiNext]_vars

\* LiveSpec: goroutines that can take a step eventually take one, and a
\* worker process that is running eventually exits.
LiveSpec == Spec /\ WF_vars(ProcessorNext)

(***************************************************************************)
(* FormSpec: the screens before a run, with the form being edited and the  *)
(* browser walking the directory tree, each directory listing arriving     *)
(* before the next key.                                                    *)
(***************************************************************************)
\* Every directory listing requested has arrived.
Loaded == loads = EmptyBag

FormNext ==
    \/ UIDirLoaded
    \/ Loaded /\ UIWelcomeEnter
    \/ Loaded /\ UIParamsFocus
    \/ Loaded /\ UIParamsType
    \/ Loaded /\ UIParamsBrowse
    \/ Loaded /\ UIBrowserEnter
    \/ Loaded /\ UIBrowserBack
    \/ Loaded /\ UIBrowserSelect
    \/ Loaded /\ UIEsc
    \/ Loaded /\ UIQuit

FormSpec == Init /\ [][FormNext]_vars

(***************************************************************************)
(* BrowseSpec: the directory browser, with listings arriving in any order  *)
(* and the window being resized.                                           *)
(***************************************************************************)
BrowseNext ==
    \/ UIWelcomeEnter
    \/ UIParamsBrowse
    \/ UIDirLoaded
    \/ UIWindowSize
    \/ UIBrowserUp
    \/ UIBrowserDown
    \/ UIBrowserEnter
    \/ UIBrowserBack
    \/ UIBrowserSelect
    \/ UIEsc

BrowseSpec == Init /\ [][BrowseNext]_vars

(***************************************************************************)
(* RestartSpec: Spec with the start button usable again after a run.  The  *)
(* goroutines of the first MaxRuns runs are followed step by step; the     *)
(* event loop is followed up to the next use of the start button, and the  *)
(* goroutine of the run that starts is not scheduled.                      *)
(***************************************************************************)
\* The start button has not been used again.
Following == created <= MaxProcs

RestartNext ==
    \/ ProcessorNext
    \/ Following /\ UICancel
    \/ Following /\ UIQuit
    \/ Following /\ UIEsc
    \/ Following /\ UIWelcomeEnter
    \/ Following /\ UIParamsFocus
    \/ Following /\ UIResultsRestart
    \/ Following /\ UIStartProcessing
    \/ Following /\ UIStartAgain
    \/ Following /\ UIProcessingKey
    \/ Following /\ \E p \in Procs : ListenRecv(p)
    \/ Following /\ UIPollBegin
    \/ Following /\ UIPollRecv
    \/ Following /\ UIDoneBegin
    \/ Following /\ UIDoneRecv

RestartSpec == Init /\ [][RestartNext]_vars

(***************************************************************************)
(* ApiRestartSpec: ApiSpec with a later Start on the same Processor, every *)
(* run followed.                                                           *)
(***************************************************************************)
ApiRestartNext ==
    \/ ProcessorSteps(Runs)
    \/ ApiStart \/ ApiStartAgain \/ ApiStartFail \/ ApiStop
    \/ ApiRecvLog \/ ApiRecvResult

ApiRestartSpec == ApiInit /\ [][ApiRestartNext]_vars

(***************************************************************************)
(* OverlapSpec: ApiSpec with a later Start on the same Processor made      *)
(* after Stop, while a run that Stop was called on has not returned.  The  *)
(* goroutines of the first MaxRuns runs are followed step by step; the     *)
(* goroutine of the run that the later Start launches is not scheduled.    *)
(***************************************************************************)
\* Start after the first MaxRuns runs, called while a stopped run is still
\* executing.
ApiStartAfterStop ==
    /\ started >= MaxRuns
    /\ \E r \in 1..started : stopped[r] /\ RunActive(r)
    /\ StartCall(MaxRuns + MaxRestarts)

OverlapNext ==
    \/ ProcessorNext
    \/ ApiStart \/ ApiStartAfterStop \/ ApiStartFail \/ ApiStop
    \/ ApiRecvLog \/ ApiRecvResult

OverlapSpec == ApiInit /\ [][OverlapNext]_vars

(***************************************************************************)
(* PureSpec: one function of the program applied to one input.  Init draws *)
(* the input, the action of the function applies it.                       *)
(***************************************************************************)
PureFrame == UNCHANGED <<procVars, runVars, childVars, apiVars, uiVars, histVars>>

\* readOutput: one round of its scanner loop on the line drawn.
FnReadOutput ==
    /\ fnIn.fn = "readOutput"
    /\ fnOut = NoOutput
    /\ fnOut' = ReadOutputLine(fnIn.line)
    /\ UNCHANGED fnIn
    /\ PureFrame

\* startProcessing: the parse of the form fields drawn.
FnParseForm ==
    /\ fnIn.fn = "parseForm"
    /\ fnOut = NoOutput
    /\ fnOut' = ParseForm(fnIn.texts, fnIn.selectedDir)
    /\ UNCHANGED fnIn
    /\ PureFrame

\* buildArgs on the Params and the absolute directory drawn.
FnBuildArgs ==
    /\ fnIn.fn = "buildArgs"
    /\ fnOut = NoOutput
    /\ fnOut' = [args |-> BuildArgs(fnIn.params, fnIn.absInputDir)]
    /\ UNCHANGED fnIn
    /\ PureFrame

\* FindScripts on the file system drawn.
FnFindScripts ==
    /\ fnIn.fn = "FindScripts"
    /\ fnOut = NoOutput
    /\ fnOut' = FindScripts(fnIn.prev, fnIn.hasPy, fnIn.hasBat, fnIn.windows)
    /\ UNCHANGED fnIn
    /\ PureFrame

PureInputs ==
    [fn : {"readOutput"}, line : RawLines]
        \cup FindInputs
        \cup [fn : {"buildArgs"}, params : ParamSets, absInputDir : AbsDirs]
        \cup [fn : {"parseForm"}, texts : FormTexts, selectedDir : {Cwd}]

PureInit ==
    /\ created = 0
    /\ InitRest
    /\ fnIn \in PureInputs
    /\ fnOut = NoOutput

PureNext ==
    \/ FnReadOutput
    \/ FnParseForm
    \/ FnBuildArgs
    \/ FnFindScripts

PureSpec == PureInit /\ [][PureNext]_vars

(***************************************************************************)
(* Properties.                                                             *)
(***************************************************************************)
\* Results sitting in a result slot, in flight to Update, or held by it.
PublishedResults ==
    {resultChan[p][1] : p \in {q \in Procs : resultChan[q] # <<>>}}
        \cup doneMsgs \cup ({uiResult} \ {NoResult})

Published(r) == pubCount[r] > 0

\* C1: every published ProcessingResult with TotalFiles > 0 has
\* SuccessCount + FailedCount = TotalFiles, for every tally and exit status.
C1_ResultTotalsAddUp ==
    \A x \in PublishedResults :
        x.TotalFiles > 0 => x.SuccessCount + x.FailedCount = x.TotalFiles

C3_QueueBoundedNonBlocking ==
    /\ \A p \in Procs : Len(logChan[p]) <= LogChanCap
    /\ \A t \in Threads : (Alive /\ slPc[t] # "none") => ENABLED SendLogStep(t)

\* Both pumps are inside sendLog at a full queue, one of them past its
\* first, failed attempt.
C3_Witness ==
    \E r \in Runs :
        /\ runPc[r] # "none"
        /\ Len(logChan[procOf[r]]) = LogChanCap
        /\ slPc[PumpThread(r, "out")] = "drop"
        /\ slPc[PumpThread(r, "err")] # "none"

\* C4: every sendLog call enqueues its entry (no call returns with its entry
\* neither sent at the first attempt nor sent after the drop).
C4_EverySendLogEnqueues == lostEntry = {}

\* C5: once Stop has been called on a running Processor during a run, the
\* child worker of that run is not running.
C5_StopTerminatesChild ==
    \A r \in Runs : stopped[r] => child[r] # "running"

\* C6: a result that a run publishes after the user cancelled it is never
\* taken up by the UI as its result.
C6_CancelledResultIgnored ==
    \A r \in Runs : pubAfterCancel[r] => uiResult.run # r

\* C7: a Start call made while the Processor is running returns the
\* already-running error and changes neither the running flag, the tallies,
\* the child process handle nor the set of runs and workers.
C7_StartWhileRunningRejected ==
    [][(lastStart'.bit # lastStart.bit /\ apiPc = "idle" /\ running[ApiProc])
          => /\ lastStart'.ret = "already"
             /\ UNCHANGED <<running, successCount, failedCount, cmd, started,
                            runPc, child>>]_vars

C7_Witness ==
    /\ lastStart.ret = "already"
    /\ running[ApiProc]
    /\ successCount[ApiProc] > 0
    /\ \E r \in Runs : child[r] = "running" /\ cmd[ApiProc] = r

\* C8: a run never makes more than one sendResult call nor publishes more
\* than one result, and (unless the program exits first) every launched run
\* whose worker exits eventually has published exactly one result, has
\* ended, and has left the Processor idle.
C8_RunPublishesOnce ==
    /\ [](\A r \in Runs : pubCount[r] <= 1 /\ sendResCalls[r] <= 1)
    /\ \A r \in FollowedRuns :
         (runPc[r] # "none") ~>
             (quit \/ (pubCount[r] = 1 /\ runPc[r] = "done"
                        /\ ~running[procOf[r]]))

C8_Witness ==
    \E r \in Runs :
        /\ pubCount[r] = 1
        /\ runPc[r] = "done"
        /\ child[r] = "exited"
        /\ ~running[procOf[r]]

EntriesOf(r, ch) == {ch[i] : i \in {j \in 1..Len(ch) : ch[j].run = r}}

\* C9: when a run's result is published, its worker (if one was started)
\* has exited and both its pumps have returned, and from then on no entry of
\* that run is added to the event queue.
C9_ResultAfterOutputPhase ==
    /\ [](\A r \in Runs :
            Published(r) =>
                \/ child[r] = "none" /\ \A k \in Streams : pumpPc[r][k] = "none"
                \/ child[r] = "exited" /\ \A k \in Streams : pumpPc[r][k] = "done")
    /\ [][\A r \in Runs :
            Published(r) =>
                \A p \in Procs : EntriesOf(r, logChan'[p]) \subseteq EntriesOf(r, logChan[p])
         ]_vars

\* A result published by a run whose pumps both forwarded an entry.
C9_Witness ==
    \E r \in Runs :
        /\ Published(r)
        /\ child[r] = "exited"
        /\ seqNo[PumpThread(r, "out")] > 0
        /\ seqNo[PumpThread(r, "err")] > 0

\* C10: a run whose worker wrote s success lines and f failure lines, with
\* f >= 1, or f = 0, s >= 1 and a clean exit, publishes
\* {TotalFiles: s + f, SuccessCount: s, FailedCount: f}, on whichever pipes
\* the lines were written.
C10_ResultMatchesTallies ==
    \A x \in PublishedResults :
        LET r == x.run
            s == emitS[r]
            f == emitF[r]
        IN  (f >= 1 \/ (f = 0 /\ s >= 1 /\ exitCode[r] = 0)) =>
                /\ x.TotalFiles = s + f
                /\ x.SuccessCount = s
                /\ x.FailedCount = f

\* A published result for a success line on one pipe and a failure line on
\* the other.
C10_Witness ==
    \E x \in PublishedResults :
        /\ emitS[x.run] = 1
        /\ emitF[x.run] = 1
        /\ seqNo[PumpThread(x.run, "out")] = 1
        /\ seqNo[PumpThread(x.run, "err")] = 1

\* The result a run published, wherever it is now.
ResultsOf(r) == {x \in PublishedResults : x.run = r}

\* C11: when the worker exits with code zero and wrote no per-file success
\* or failure line, the published result is {TotalFiles 1, SuccessCount 1,
\* FailedCount 0}.
C11_CleanExitInfersSuccess ==
    \A r \in Runs : \A x \in ResultsOf(r) :
        (child[r] = "exited" /\ exitCode[r] = 0 /\ emitS[r] = 0 /\ emitF[r] = 0) =>
            /\ x.TotalFiles = 1
            /\ x.SuccessCount = 1
            /\ x.FailedCount = 0

\* A published result of a worker that wrote only unclassified lines and
\* exited cleanly.
C11_Witness ==
    \E r \in Runs : \E x \in ResultsOf(r) :
        /\ child[r] = "exited"
        /\ exitCode[r] = 0
        /\ emitS[r] = 0
        /\ emitF[r] = 0
        /\ written[r] = MaxLines
        /\ x.SuccessCount = 1

\* The Error entry run() hands to sendLog for an unexplained abnormal exit.
ExitErrEntry(r) == LogEntry("ERROR", "exiterr", r, "run", 3)

\* C12: when the worker ends with a non-zero status and wrote no failure
\* line, the published result has FailedCount = 1 whatever the successes,
\* and the Error entry for the exit was enqueued by a sendLog call that
\* returned before the result was published; when the worker wrote a failure
\* line, the failures are the tallied ones and no such entry is sent.
C12_AbnormalExitSynthesizesFailure ==
    \A r \in Runs :
        (Published(r) /\ child[r] = "exited" /\ exitCode[r] # 0) =>
            IF emitF[r] = 0
            THEN /\ runResult[r].FailedCount = 1
                 /\ runResult[r].SuccessCount = emitS[r]
                 /\ \A x \in ResultsOf(r) : x.FailedCount = 1
                 /\ slEnt[RunThread(r)] = ExitErrEntry(r)
                 /\ slPc[RunThread(r)] = "none"
                 /\ ExitErrEntry(r) \notin lostEntry
            ELSE /\ runResult[r].FailedCount = emitF[r]
                 /\ \A x \in ResultsOf(r) : x.FailedCount = emitF[r]
                 /\ slEnt[RunThread(r)].msg # "exiterr"
                 /\ seqNo[RunThread(r)] = 2

\* A published result with one tallied success and the synthesized failure.
C12_Witness ==
    \E r \in Runs : \E x \in ResultsOf(r) :
        /\ child[r] = "exited"
        /\ exitCode[r] = 1
        /\ emitS[r] = 1
        /\ emitF[r] = 0
        /\ x.FailedCount = 1
        /\ slEnt[RunThread(r)] = ExitErrEntry(r)

\* The run gave up at StdoutPipe / StderrPipe: the last entry it handed to
\* sendLog is the pipe error.
PipeFailed(r) == slEnt[RunThread(r)].msg = "pipeerr"

\* C13: when a pipe of the worker cannot be opened, no worker is started,
\* the Error entry is handed to sendLog and enqueued, the run publishes
\* exactly one result, with FailedCount = 1 and SuccessCount = 0, and the
\* Processor is idle once the run has ended.
C13_PipeFailureAbortsRun ==
    \A r \in Runs :
        PipeFailed(r) =>
            /\ child[r] = "none"
            /\ \A k \in Streams : pumpPc[r][k] = "none"
            /\ slEnt[RunThread(r)].level = "ERROR"
            /\ slEnt[RunThread(r)] \notin lostEntry
            /\ runPc[r] \in {"sendresult", "defer", "done"}
            /\ runResult[r].FailedCount = 1
            /\ runResult[r].SuccessCount = 0
            /\ sendResCalls[r] <= 1
            /\ (runPc[r] = "sendresult" => pubCount[r] = 0)
            /\ (runPc[r] \in {"defer", "done"} => pubCount[r] = 1)
            /\ (runPc[r] = "done" => ~running[procOf[r]])

C13_Witness ==
    \E r \in Runs : \E x \in ResultsOf(r) :
        /\ PipeFailed(r)
        /\ runPc[r] = "done"
        /\ x.FailedCount = 1
        /\ x.SuccessCount = 0
        /\ ~running[procOf[r]]

\* C14: a Start call that cannot locate the worker script returns that
\* error; when it returns the Processor is not running, and the call has
\* launched no run and no worker and published no result.
C14_ScriptNotFoundRejectsStart ==
    [][(lastStart'.bit # lastStart.bit /\ lastStart'.ret = "notfound")
          => /\ ~running'[ApiProc]
             /\ lastStart'.run = 0
             /\ UNCHANGED <<started, runPc, child, resultChan, pubCount,
                            sendResCalls>>]_vars

\* Start has returned the not-found error; the entry it logged is queued.
C14_Witness ==
    /\ lastStart.ret = "notfound"
    /\ ~running[ApiProc]
    /\ started = 0
    /\ resultChan[ApiProc] = <<>>
    /\ \E i \in 1..Len(logChan[ApiProc]) : logChan[ApiProc][i].msg = "notfound"

\* A directory with at least one regular file named *.las in any letter case.
HasRecognizedInput(d) ==
    /\ d.kind = "dir"
    /\ \E e \in d.entries : ~e.isDir /\ e.ext \in {"las", "LAS"}

\* C15: a start attempt whose input directory is missing, is not a
\* directory or holds no regular *.las file (in any letter case) records a
\* validation error, leaves the screen on the form and processing false, and
\* calls Start on no Processor: no run, listener or poll timer is started.
C15_InvalidInputRejected ==
    [][(created' # created /\ ~HasRecognizedInput(inputDir'))
          => /\ uiErr' \in {"notexist", "notdir", "nolas"}
             /\ screen = "Params"
             /\ screen' = "Params"
             /\ ~processing
             /\ ~processing'
             /\ UNCHANGED <<lastStart, started, running, runPc, listeners,
                            pollPending>>]_vars

\* A rejected directory whose only entry is a sub-directory named *.LAS.
C15_Witness ==
    /\ uiErr = "nolas"
    /\ screen = "Params"
    /\ ~processing
    /\ inputDir.kind = "dir"
    /\ \E e \in inputDir.entries : e.isDir /\ e.ext = "LAS"
    /\ lastStart = NoStart

\* C17: once the UI has taken up a ProcessingResult, processing is false;
\* its final drain never blocks and moves the queued entries, in order and
\* without loss, to the log buffer; the handler ends only on an empty queue
\* and then sets the displayed success counter and total to the result's
\* when those are non-zero (else keeps them) and shows the Results screen.
C17_ResultReceiptDrainsAndReconciles ==
    /\ [](uiPc = "finaldrain" =>
            /\ ~processing
            /\ uiResult # NoResult
            /\ uiProc # 0
            /\ ENABLED UIDoneRecv)
    /\ [][uiPc = "finaldrain" =>
            /\ logs' \o logChan'[uiProc] = logs \o logChan[uiProc]
            /\ (uiPc' = "finaldrain" => UNCHANGED <<screen, filesTotal, uiResult>>)
            /\ (uiPc' = "idle" =>
                    /\ logChan[uiProc] = <<>>
                    /\ filesDone' = IF uiResult.SuccessCount # 0
                                    THEN uiResult.SuccessCount ELSE filesDone
                    /\ filesTotal' = IF uiResult.TotalFiles # 0
                                     THEN uiResult.TotalFiles ELSE filesTotal
                    /\ ~processing'
                    /\ screen' = "Results")
         ]_vars

\* The Results screen after a final drain that moved entries to a log
\* buffer already at its cap, with the counters taken from the result.
C17_Witness ==
    /\ screen = "Results"
    /\ uiPc = "idle"
    /\ ~processing
    /\ Len(logs) > MaxLogs
    /\ uiResult.SuccessCount > 0
    /\ filesDone = uiResult.SuccessCount
    /\ filesTotal = uiResult.TotalFiles
    /\ logChan[uiProc] = <<>>

C19_OnlyCancelActsWhileProcessing ==
    [][(screen = "Processing" /\ processing /\ UIKeyMsg)
          => \/ UNCHANGED <<screen, quit, processing>>
             \/ /\ UICancel
                /\ ~processing'
                /\ ~running'[uiProc]
                /\ cancelled'[uiProc]
                /\ UNCHANGED <<screen, quit>>]_vars

\* The cancel key was handled during a run whose worker was running.
C19_Witness ==
    /\ screen = "Processing"
    /\ ~processing
    /\ uiProc # 0
    /\ cancelled[uiProc]
    /\ ~quit
    /\ \E r \in Runs : stopped[r] /\ exitCode[r] = 2

\* C20: the entries of one stream of one run stand in the log buffer in the
\* order the stream's pump handed them to sendLog.
C20_PerStreamOrderKept ==
    \A i, j \in 1..Len(logs) :
        (i < j /\ logs[i].run = logs[j].run /\ logs[i].src = logs[j].src
           /\ logs[i].src \in Streams)
            => logs[i].n < logs[j].n

\* Both entries of one stream are in the buffer after an entry was lost to
\* an overflow of the queue.
C20_Witness ==
    \E i, j \in 1..Len(logs) :
        /\ i < j
        /\ logs[i].src = "err"
        /\ logs[j].src = "err"
        /\ logs[j].n = 2
        /\ seqNo[<<logs[i].run, "run">>] >= 2
        /\ \A k \in 1..Len(logs) : logs[k].src # "run"

(***************************************************************************)
(* Properties of readOutput on one line (PureSpec).                        *)
(***************************************************************************)
\* readOutput has been applied to the line drawn.
ReadCall == fnIn.fn = "readOutput" /\ fnOut # NoOutput

\* The line, trimmed, is nothing but '=' and '-' characters.
IsSeparatorRun(line) == line # <<>> /\ \A i \in 1..Len(line) : line[i] \in SepChars

\* C21: the classifier pushes exactly one LogEntry for a line that, trimmed,
\* is non-empty and not purely a run of '=' or '-' characters, and pushes
\* none for a blank line or such a separator.
C21_OneEntryPerContentLine ==
    ReadCall =>
        LET line == TrimSpace(fnIn.line) IN
        Len(fnOut.sent) = IF line # <<>> /\ ~IsSeparatorRun(line) THEN 1 ELSE 0

\* C22: a line [TAG] rest with a known tag in any letter case yields an
\* entry of that severity with rest as its message; a line with an
\* unrecognized tag, or with no leading tag, yields an Info entry whose
\* message is the full trimmed line.
C22_SeverityAndMessage ==
    (ReadCall /\ fnOut.sent # <<>>) =>
        LET line == TrimSpace(fnIn.line) IN
        IF LogPatternMatches(line) /\ TagUpper(Head(line)) \in KnownLevels
        THEN fnOut.sent[1] = [level |-> TagUpper(Head(line)),
                              msg |-> TagMessage(line)]
        ELSE fnOut.sent[1] = [level |-> "INFO", msg |-> line]

\* C23: classifying one line adds one to the success counter iff the entry
\* is Success and its message contains "Successfully processed:", adds one
\* to the failure counter iff the entry is Error and its message contains
\* "Failed to" or "failed", and otherwise adds nothing; a line without a
\* recognized leading tag, and a line that is dropped, adds nothing.
C23_TalliesFollowMarkers ==
    ReadCall =>
        LET line == TrimSpace(fnIn.line)
            tagged == LogPatternMatches(line)
                      /\ TagUpper(Head(line)) \in KnownLevels
        IN IF fnOut.sent = <<>> \/ ~tagged
           THEN fnOut.succ = 0 /\ fnOut.fail = 0
           ELSE LET e == fnOut.sent[1] IN
                /\ fnOut.succ = IF e.level = "SUCCESS"
                                   /\ Contains(e.msg, "Successfully processed:")
                                THEN 1 ELSE 0
                /\ fnOut.fail = IF e.level = "ERROR"
                                   /\ (Contains(e.msg, "Failed to")
                                       \/ Contains(e.msg, "failed"))
                                THEN 1 ELSE 0

\* A success line in mixed case has been counted.
C23_Witness ==
    /\ ReadCall
    /\ fnIn.line = <<"[Success]", Space, "Successfully processed:", "ok">>
    /\ fnOut.succ = 1
    /\ fnOut.fail = 0

(***************************************************************************)
(* Properties of the form parse (PureSpec).                                *)
(***************************************************************************)
ParseCall == fnIn.fn = "parseForm" /\ fnOut # NoOutput

\* C24: after the form is parsed, whatever the fields hold, neighbor count,
\* octree depth, samples-per-node and point weight are > 0, the boundary
\* code is in {0, 1, 2} and the output sub-directory name is non-empty; an
\* empty or invalid field has its default (6, 11, 1.5, 2.0, 2, "Processed").
C24_ParsedFieldsValid ==
    ParseCall =>
        /\ fnOut.KNN > 0
        /\ fnOut.OctreeDepth > 0
        /\ FloatGT0(fnOut.SamplesPerNode)
        /\ FloatGT0(fnOut.PointWeight)
        /\ fnOut.BoundaryType \in 0..2
        /\ fnOut.OutputSubdir # ""
        /\ fnIn.texts[2] = "" => fnOut.OutputSubdir = "Processed"
        /\ fnIn.texts[3] \in {"", "abc", "0", "-3"} => fnOut.KNN = 6
        /\ fnIn.texts[4] \in {"", "0"} => fnOut.OctreeDepth = 11
        /\ fnIn.texts[5] \in {"", "abc", "0", "-3", "nan"}
             => fnOut.SamplesPerNode = Float(150)
        /\ fnIn.texts[6] \in {"", "-3", "nan"} => fnOut.PointWeight = Float(200)
        /\ fnIn.texts[7] \in {"", "x", "3"} => fnOut.BoundaryType = 2

(***************************************************************************)
(* Properties of buildArgs (PureSpec).                                     *)
(***************************************************************************)
BuildCall == fnIn.fn = "buildArgs" /\ fnOut # NoOutput

\* Positions of the argument vector that hold the flag.
FlagAt(args, flag) == {i \in 2..Len(args) : args[i] = flag}
HasFlag(args, flag) == FlagAt(args, flag) # {}
\* The flag occurs once, right after the entries of the flags before it,
\* and the value's text follows it.
FlagOk(args, flag, text, before) ==
    /\ Cardinality(FlagAt(args, flag)) = 1
    /\ \A i \in FlagAt(args, flag) :
         /\ i = 2 + 2 * Cardinality({f \in before : HasFlag(args, f)})
         /\ i < Len(args)
         /\ args[i + 1] = text

\* C25 as stated: the argument vector starts with the absolute input
\* directory and holds the flag of a field iff the field differs from its
\* documented default.
C25_FlagIffDiffers ==
    BuildCall =>
        LET a == fnOut.args
            q == fnIn.params
        IN /\ a[1] = fnIn.absInputDir
           /\ HasFlag(a, "--output-dir") <=> q.OutputSubdir # "Processed"
           /\ HasFlag(a, "--knn") <=> q.KNN # 6
           /\ HasFlag(a, "--octree-depth") <=> q.OctreeDepth # 11
           /\ HasFlag(a, "--samples-per-node")
                <=> FloatNE(q.SamplesPerNode, Float(150))
           /\ HasFlag(a, "--point-weight") <=> FloatNE(q.PointWeight, Float(200))
           /\ HasFlag(a, "--boundary-type") <=> q.BoundaryType # 2

\* C25, amended: the argument vector starts with the absolute input
\* directory and holds the flag of a field, once, followed by the field's
\* value, iff the value is usable (a non-empty name, a number > 0, a
\* boundary code in 0..2) and differs from the documented default; the
\* flags come in the order of the fields and nothing else is in the vector.
C25_FlagIffUsableAndDiffers ==
    BuildCall =>
        LET a == fnOut.args
            q == fnIn.params
            flags == <<"--output-dir", "--knn", "--octree-depth",
                       "--samples-per-node", "--point-weight", "--boundary-type">>
            want == <<q.OutputSubdir # "" /\ q.OutputSubdir # "Processed",
                      q.KNN > 0 /\ q.KNN # 6,
                      q.OctreeDepth > 0 /\ q.OctreeDepth # 11,
                      FloatGT0(q.SamplesPerNode) /\ q.SamplesPerNode # Float(150),
                      FloatGT0(q.PointWeight) /\ q.PointWeight # Float(200),
                      q.BoundaryType \in 0..1>>
            text == <<q.OutputSubdir, Itoa(q.KNN), Itoa(q.OctreeDepth),
                      Fmt1f(q.SamplesPerNode), Fmt1f(q.PointWeight),
                      Itoa(q.BoundaryType)>>
        IN /\ a[1] = fnIn.absInputDir
           /\ \A k \in 1..6 :
                IF want[k]
                THEN FlagOk(a, flags[k], text[k], {flags[j] : j \in 1..(k - 1)})
                ELSE ~HasFlag(a, flags[k])
           /\ Len(a) = 1 + 2 * Cardinality({k \in 1..6 : want[k]})

\* A neighbor count of 0 got no flag while an octree depth of 8 got one.
C25_Witness ==
    /\ BuildCall
    /\ fnIn.params.KNN = 0
    /\ fnIn.params.OctreeDepth = 8
    /\ fnIn.params.SamplesPerNode = Float(154)
    /\ fnOut.args = <<fnIn.absInputDir, "--octree-depth", "8",
                      "--samples-per-node", "1.5">>

(***************************************************************************)
(* Properties of FindScripts (PureSpec).                                   *)
(***************************************************************************)
FindCall == fnIn.fn = "FindScripts" /\ fnOut # NoOutput

\* The probe order the claim names: self-directory, its parent, its
\* grandparent, current directory, current directory's parent.
ClaimedOrder == <<"execDir", "execDir/..", "execDir/../..", "cwd", "cwd/..">>

\* C26: the worker entry point resolves to the first candidate, in the
\* order self-directory, parent, grandparent, current directory, current
\* directory's parent, that contains it; the call fails with not-found iff
\* no candidate contains it, whether or not the bootstrap wrapper exists.
C26_FirstCandidateInOrder ==
    FindCall =>
        /\ \A i \in 1..Len(ClaimedOrder) :
             (/\ ClaimedOrder[i] \in fnIn.hasPy
              /\ \A j \in 1..(i - 1) : ClaimedOrder[j] \notin fnIn.hasPy)
                => (fnOut.err = "nil" /\ fnOut.scriptPath = ClaimedOrder[i])
        /\ fnOut.err = "notfound" <=> fnIn.hasPy = {}

(***************************************************************************)
(* Properties of the form and the browser (FormSpec).                      *)
(***************************************************************************)
\* C28: opening the browser from the form, moving about in it, and coming
\* back by select or by cancel leaves every field's text and the focused
\* field as they were, except that select writes the directory the browser
\* shows into the input-directory field; cancel writes nothing.
C28_BrowsePreservesForm ==
    [][/\ (screen = "Params" /\ screen' = "FileBrowser")
            => UNCHANGED <<inputs, focusedField>>
       /\ (screen = "FileBrowser" /\ screen' = "FileBrowser")
            => UNCHANGED <<inputs, focusedField>>
       /\ (screen = "FileBrowser" /\ screen' = "Params")
            => /\ focusedField' = focusedField
               /\ \A f \in FormFields \ {FocusInputDir} : inputs'[f] = inputs[f]
               /\ IF selectedDir' = currentDir /\ inputs'[FocusInputDir] = currentDir
                  THEN UNCHANGED currentDir
                  ELSE UNCHANGED <<inputs, selectedDir>>]_vars

\* Back on the form after a select: the input-directory field holds a
\* directory reached in the browser, another field and the focus are as
\* edited before.
C28_Witness ==
    /\ screen = "Params"
    /\ inputs[FocusInputDir] = "/w/scans"
    /\ selectedDir = "/w/scans"
    /\ inputs[2] = "8"
    /\ focusedField = 2

(***************************************************************************)
(* Properties of the event loop while a run is in progress (Spec).         *)
(***************************************************************************)
\* The listenForResult command is waiting and no result is available.
AwaitingResult ==
    /\ uiProc # 0
    /\ uiProc \in listeners
    /\ resultChan[uiProc] = <<>>

\* C29: no handler of the event loop waits on a channel: inside either
\* drain loop the handler can always take its next step, the empty queue
\* included, and while the wait for the result is pending outside the loop
\* with no result available, an idle loop accepts the cancel key, any other
\* key and a pending poll tick.
C29_HandlersNeverBlock ==
    /\ (Alive /\ uiPc = "poll") => ENABLED UIPollRecv
    /\ (Alive /\ uiPc = "finaldrain") => ENABLED UIDoneRecv
    /\ (UIIdle /\ AwaitingResult) =>
         /\ processing => ENABLED UICancel
         /\ screen = "Processing" => ENABLED UIProcessingKey
         /\ pollPending > 0 => ENABLED UIPollBegin

\* The poll handler is at an empty queue while the worker of the run is
\* alive and the result is still awaited.
C29_Witness ==
    /\ Alive
    /\ processing
    /\ uiPc = "poll"
    /\ logChan[uiProc] = <<>>
    /\ AwaitingResult
    /\ \E r \in Runs : procOf[r] = uiProc /\ child[r] = "running"

(***************************************************************************)
(* Properties of leaving the Results screen (RestartSpec).                 *)
(***************************************************************************)
\* A step of the restart action.
RestartStep == screen = "Results" /\ screen' = "Welcome" /\ uiErr' = "none"

\* A step of startProcessing that starts a run.
RunStartStep == started' # started /\ uiProc' # uiProc

\* C27 as stated: the restart action leaves Results for Welcome with the
\* log buffer empty and the counters the screens display, files done and
\* files in total, cleared.
C27_RestartClearsCounters ==
    [][(UIResultsRestart /\ RestartStep)
         => (logs' = <<>> /\ filesDone' = 0 /\ filesTotal' = 0)]_vars

\* C27, amended: on Results the restart and quit actions are available;
\* restart moves to Welcome with the log buffer empty and the files-done
\* counter at zero, quit exits; the total it leaves, and the logs and
\* counters that esc leaves, are replaced when the next run starts, before
\* any screen shows them: the run starts with an empty log buffer, zero
\* files done and the total counted in its own input directory.
C27_NothingStaleInNextRun ==
    /\ []((UIIdle /\ screen = "Results")
            => (ENABLED UIResultsRestart /\ ENABLED UIQuit))
    /\ [][/\ (UIResultsRestart /\ RestartStep)
               => (logs' = <<>> /\ filesDone' = 0)
          /\ (screen = "Results" /\ quit') => UNCHANGED <<screen, logs>>
          /\ RunStartStep
               => /\ screen' = "Processing"
                  /\ logs' = <<>>
                  /\ filesDone' = 0
                  /\ filesTotal' = CountLASFiles(inputDir')]_vars

\* A run has started after one whose result counted a success: the log
\* buffer is empty and no file is counted as done.
C27_Witness ==
    /\ started = MaxRuns + MaxRestarts
    /\ screen = "Processing"
    /\ logs = <<>>
    /\ filesDone = 0
    /\ uiResult # NoResult
    /\ uiResult.SuccessCount > 0

(***************************************************************************)
(* Properties of the result slot across runs (ApiRestartSpec).             *)
(***************************************************************************)
\* Run r makes its sendResult call in this step.
SendResultStep(r) == sendResCalls'[r] # sendResCalls[r]

\* C30: publishing never blocks, and when the slot still holds an unread
\* result of an earlier run, the slot holds the publishing run's result
\* after the call.
C30_NewResultReplacesStale ==
    [][\A r \in Runs :
         /\ RunAt(r, "sendresult") => ENABLED RunSendResult(r)
         /\ (SendResultStep(r) /\ resultChan[procOf[r]] # <<>>)
              => resultChan'[procOf[r]] = <<runResult[r]>>]_vars

(***************************************************************************)
(* The child handle p.cmd after a run.                                     *)
(***************************************************************************)
\* C31: once a run has returned and its child process has exited, the
\* Processor no longer holds that child's exec.Cmd, so a later Stop finds
\* nothing to kill.
C31_HandleClearedAfterExit ==
    \A r \in Runs :
      (runPc[r] = "done" /\ child[r] = "exited") => cmd[procOf[r]] # r

(***************************************************************************)
(* Runs of one Processor (OverlapSpec).                                    *)
(***************************************************************************)
\* The run goroutine of r or one of its readOutput goroutines is executing.
Executing(r) ==
    \/ RunActive(r)
    \/ \E k \in Streams : pumpPc[r][k] \notin {"none", "done"}

\* C32: when Start has launched a run of a Processor, no goroutine of an
\* earlier run of that Processor is still executing and no child worker of
\* an earlier run is alive.
C32_OneActiveRunPerProcessor ==
    \A r1, r2 \in Runs :
      (r1 < r2 /\ procOf[r1] # 0 /\ procOf[r1] = procOf[r2])
        => /\ ~Executing(r1)
           /\ child[r1] # "running"

(***************************************************************************)
(* Tallies and discarded entries.                                          *)
(***************************************************************************)
\* sendLog discards an entry in this step: it evicts the oldest queued one
\* or gives up on the one it is sending.
DiscardStep ==
    \/ \E t \in Threads :
         /\ slPc[t] = "drop" /\ slPc'[t] = "send2"
         /\ logChan'[ThreadProc(t)] # logChan[ThreadProc(t)]
    \/ lostEntry' # lostEntry

\* Run r reads the tallies in this step.
ReadCountsStep(r) == runPc[r] = "readcounts" /\ runPc'[r] = "sendresult"

\* C33: a step in which sendLog discards an entry changes neither the
\* tallies nor any result, and the tallies a run reads for its result are
\* the numbers of success and failure lines its worker wrote, whatever
\* became of their entries.
C33_DiscardKeepsResult ==
    [][/\ DiscardStep =>
            UNCHANGED <<successCount, failedCount, runResult, resultChan>>
       /\ \A r \in Runs :
            ReadCountsStep(r) =>
                /\ successCount[procOf[r]] = emitS[r]
                /\ failedCount[procOf[r]] = emitF[r]
                /\ runResult'[r] =
                     ExitResult(emitS[r], emitF[r], exitCode[r] = 0, r)]_vars

\* A published result that counts a success line whose entry sendLog gave
\* up on.
C33_Witness ==
    \E x \in PublishedResults :
        /\ emitS[x.run] >= 1
        /\ x.SuccessCount = emitS[x.run]
        /\ \E e \in lostEntry : e.run = x.run /\ IsSuccessEntry(e.level, e.msg)

(***************************************************************************)
(* Screens and the processing flag.                                        *)
(***************************************************************************)
\* C34: whenever m.processing is true the active screen is Processing.
C34_ProcessingOnProcessingScreen == processing => screen = "Processing"

\* A run started from the form after an earlier run's Results screen is
\* being processed.
C34_Witness ==
    /\ processing
    /\ screen = "Processing"
    /\ created > MaxProcs
    /\ uiResult # NoResult

\* Update takes up a ProcessingDoneMsg in this step.
DoneHandlingBegins == uiPc = "idle" /\ uiPc' = "finaldrain"

\* ProcessingDoneMsg messages of run r: waited for by a listenForResult
\* command, delivered and not yet handled, or handled.
DoneMsgsOf(r) ==
    Cardinality({msg \in doneMsgs : msg.run = r})
        + (IF procOf[r] \in listeners THEN 1 ELSE 0)
        + (IF uiResult.run = r THEN 1 ELSE 0)

\* C35: the screen becomes Results only in the handler of a
\* ProcessingDoneMsg, that handler only ever starts on the Processing
\* screen, and no run the UI started has more than one such message.
C35_ResultsOnlyByDoneMsg ==
    /\ [](\A r \in Runs : runPc[r] # "none" => DoneMsgsOf(r) <= 1)
    /\ [][/\ (screen' = "Results" /\ screen # "Results")
                => uiPc = "finaldrain"
          /\ DoneHandlingBegins => screen = "Processing"]_vars

\* Results shown for a run that was cancelled on the Processing screen.
C35_Witness ==
    /\ screen = "Results"
    /\ uiProc # 0
    /\ cancelled[uiProc]
    /\ uiResult.run # 0
    /\ procOf[uiResult.run] = uiProc
    /\ doneMsgs = {}

(***************************************************************************)
(* The event queue once the result has been handled.                       *)
(***************************************************************************)
\* No goroutine of run r can call sendLog any more, and none is inside it.
Quiet(r) ==
    /\ runPc[r] \in {"defer", "done"}
    /\ \A k \in Streams : pumpPc[r][k] \in {"none", "done"}
    /\ \A role \in Roles : slPc[<<r, role>>] = "none"

\* Update receives an entry from the queue of its Processor in this step.
UIReceiveStep ==
    /\ uiPc \in {"poll", "finaldrain"}
    /\ uiProc # 0
    /\ logChan'[uiProc] # logChan[uiProc]
    /\ slPc' = slPc

\* C36: from the moment the handler of a run's ProcessingDoneMsg has shown
\* Results, the queue of that run's Processor is empty and stays empty, no
\* goroutine of the run being able to push to it; and every entry Update
\* ever took from the queue was appended to the log buffer.
C36_QueueEmptyAfterResults ==
    /\ [](\A r \in Runs :
            (uiResult.run = r /\ uiPc = "idle")
                => /\ logChan[procOf[r]] = <<>>
                   /\ Quiet(r))
    /\ [](screen = "Results" /\ uiProc # 0 => logChan[uiProc] = <<>>)
    /\ [][UIReceiveStep
            => /\ logs' # <<>>
               /\ logs'[Len(logs')] = Head(logChan[uiProc])
               /\ logChan'[uiProc] = Tail(logChan[uiProc])]_vars

\* Results shown after a final drain that appended entries, for a run some
\* of whose entries sendLog discarded.
C36_Witness ==
    /\ screen = "Results"
    /\ uiResult.run # 0
    /\ logChan[uiProc] = <<>>
    /\ lostEntry # {}
    /\ Len(logs) > MaxLogs

(***************************************************************************)
(* The files-done counter while a run is shown.                            *)
(***************************************************************************)
\* The handler of the ProcessingDoneMsg overwrites the counters in this step.
ReconcileStep == uiPc = "finaldrain" /\ uiPc' = "idle"

\* C37: on the Processing screen m.filesDone never exceeds the success
\* tally of the Processor being shown; it grows only when Update receives
\* an entry, by one and only for a success entry, which that step removes
\* from the queue.
C37_FilesDoneWithinTally ==
    /\ [](screen = "Processing" /\ uiProc # 0
            => filesDone <= successCount[uiProc])
    /\ [][/\ UIReceiveStep
               => /\ filesDone' = filesDone
                        + (IF CountsAsDone(Head(logChan[uiProc])) THEN 1 ELSE 0)
                  /\ logChan'[uiProc] = Tail(logChan[uiProc])
          /\ (filesDone' > filesDone /\ ~ReconcileStep) => UIReceiveStep]_vars

\* One of two tallied success lines has been counted by the UI so far.
C37_Witness ==
    /\ screen = "Processing"
    /\ uiProc # 0
    /\ filesDone = 1
    /\ successCount[uiProc] = 2
    /\ uiResult = NoResult

(***************************************************************************)
(* Recurring timer events.                                                 *)
(***************************************************************************)
\* C38: at most one PollLogsMsg timer event is pending at any time, also
\* when a run is started while an event of the run before it is pending.
C38_OnePendingPoll == pollPending <= 1

(***************************************************************************)
(* Properties of the directory browser (BrowseSpec).                       *)
(***************************************************************************)
\* The enter key descends in this step.
DescendStep == currentDir' # currentDir /\ ParentDir(currentDir') = currentDir

\* C39: the enter key only ever joins m.currentDir with an entry that was
\* listed from m.currentDir, and whenever no listing is in flight m.entries
\* is the listing of m.currentDir.
C39_EntriesMatchCurrentDir ==
    /\ [](loads = EmptyBag =>
            /\ entries.dir = currentDir
            /\ entries.names = ListDir(currentDir))
    /\ [][DescendStep => entries.dir = currentDir]_vars

\* C40: 0 <= cursor <= max(0, len(entries) - 1) and
\* 0 <= scroll offset <= cursor.
C40_CursorInRange ==
    /\ 0 <= cursor
    /\ cursor <= (IF Len(entries.names) = 0 THEN 0 ELSE Len(entries.names) - 1)
    /\ 0 <= browseScroll
    /\ browseScroll <= cursor

\* The list was scrolled in a small window, which then grew.
C40_Witness ==
    /\ screen = "FileBrowser"
    /\ cursor = Len(entries.names) - 1
    /\ browseScroll > 0
    /\ height = 24

====
